---- MODULE Spec2Model ----
(***************************************************************************)
(* The session supervisor of the realtime recruiter (src/app/page.tsx,     *)
(* component Home) and the tools the remote agent may call                 *)
(* (src/lib/recruiter-tools.ts, createRecruiterTools).                     *)
(*                                                                         *)
(* The browser is single threaded: every action below is one callback or   *)
(* one continuation of an async function run to its next await.  The       *)
(* transport (RealtimeSession) and the network are the environment: they   *)
(* decide when an awaited promise settles and when an event or a tool call *)
(* is delivered.                                                           *)
(***************************************************************************)
EXTENDS Integers, Sequences, FiniteSets, TLC

\* ------------------------------------------------------------- bounds
\* connect() invocations that pass the guard, each with its own media
\* stream and RealtimeSession object
MaxAttempts == 2
\* moderation_check calls per behaviour
MaxChecks == 1
\* length of the violations array of a sampled guardrail payload
MaxViolations == 2
\* checks made in a session of LogSpec
MaxLogged == 12
\* checks in flight at once in LogSpec
MaxPending == 2

Attempts == 1..MaxAttempts

\* useRef(null): no attempt's object is referenced
NoRef == 0

\* ------------------------------------------------------------- values
\* JavaScript values carry their type; a missing property is undefined.
JUndefined == [t |-> "undefined"]
JNull == [t |-> "null"]
JNumber(n) == [t |-> "number", v |-> n]
\* an enum-like string, kept whole
JStr(s) == [t |-> "string", v |-> s]
\* free text: the sequence of its pieces (characters, or the parts a
\* template literal and join() put together)
JText(cs) == [t |-> "string", v |-> cs]
JArr(xs) == [t |-> "array", v |-> xs]
JBool(b) == [t |-> "boolean", v |-> b]
\* an object: the record of its properties
JObj(r) == [t |-> "object", v |-> r]

IsWhite(c) == c = " "

\* String.prototype.trim on a text: drops leading and trailing white space
RECURSIVE TrimStart(_)
TrimStart(cs) ==
  IF cs # <<>> /\ IsWhite(Head(cs)) THEN TrimStart(Tail(cs)) ELSE cs

RECURSIVE TrimEnd(_)
TrimEnd(cs) ==
  IF cs # <<>> /\ IsWhite(cs[Len(cs)])
  THEN TrimEnd(SubSeq(cs, 1, Len(cs) - 1))
  ELSE cs

Trim(cs) == TrimEnd(TrimStart(cs))

\* Array.prototype.join(sep) on an array of strings
RECURSIVE Join(_, _)
Join(xs, sep) ==
  IF xs = <<>> THEN <<>>
  ELSE IF Len(xs) = 1 THEN <<xs[1]>>
  ELSE <<xs[1], sep>> \o Join(Tail(xs), sep)

\* ------------------------------------------------------------- schema
GuardrailStates ==
  {"CONSENT_PENDING", "CONSENT_DENIED", "AGE_GATE", "SCREENING",
   "TRIAL_INFO", "SCHEDULE", "HUMAN_HANDOFF", "END"}

GuardrailActions ==
  {"ASK", "ANSWER", "REFUSE", "ESCALATE_CRISIS", "CONFIRM", "SUMMARIZE",
   "GOODBYE"}

PiiCategories ==
  {"NAME", "EMAIL", "PHONE", "ZIP", "CITY", "STATE", "AGE", "DOB_MONTH_YEAR"}

ViolationTags ==
  {"ADVICE_MEDICAL", "COLLECT_EXCESS_PII", "MINOR_USER", "EMERGENCY_SIGNAL",
   "CLAIM_EFFICACY", "NO_CONSENT", "OUT_OF_SCOPE"}

\* faulty variant: NO_CONSENT left out of the set
HighRiskWithoutNoConsent == {"EMERGENCY_SIGNAL", "MINOR_USER"}

HIGH_RISK_VIOLATIONS == {"EMERGENCY_SIGNAL", "MINOR_USER", "NO_CONSENT"}

\* z.enum([...])
ZEnum(x, S) == x.t = "string" /\ x.v \in S

\* z.array(z.enum([...])).default([]): undefined passes (and is defaulted),
\* anything else must be an array of members
ZEnumArrayDefault(x, S) ==
  \/ x.t = "undefined"
  \/ x.t = "array" /\ \A i \in DOMAIN x.v : ZEnum(x.v[i], S)

\* z.string().optional()
ZStringOptional(x) == x.t \in {"undefined", "string"}

\* faulty variant: the schema does not look at risk_notes
SafeParseIgnoringRiskNotes(raw) ==
  /\ ZEnum(raw.state, GuardrailStates)
  /\ ZEnum(raw.action, GuardrailActions)
  /\ ZEnumArrayDefault(raw.pii_requested, PiiCategories)
  /\ ZEnumArrayDefault(raw.violations, ViolationTags)

\* guardrailStateSchema.safeParse(rawPayload).success
SafeParseSuccess(raw) ==
  /\ ZEnum(raw.state, GuardrailStates)
  /\ ZEnum(raw.action, GuardrailActions)
  /\ ZEnumArrayDefault(raw.pii_requested, PiiCategories)
  /\ ZEnumArrayDefault(raw.violations, ViolationTags)
  /\ ZStringOptional(raw.risk_notes)

Unwrap(xs) == [i \in DOMAIN xs |-> xs[i].v]

\* parsed.data: the enum strings, the arrays with .default([]) applied
ParsedData(raw) ==
  [state |-> raw.state.v,
   action |-> raw.action.v,
   pii_requested |->
     IF raw.pii_requested.t = "undefined" THEN JArr(<<>>)
     ELSE JArr(Unwrap(raw.pii_requested.v)),
   violations |->
     IF raw.violations.t = "undefined" THEN JArr(<<>>)
     ELSE JArr(Unwrap(raw.violations.v)),
   risk_notes |-> raw.risk_notes]

\* x ?? []
OrEmpty(x) == IF x.t \in {"undefined", "null"} THEN <<>> ELSE x.v

\* the payload the tool hands to its callbacks
NormalizedPayload(raw) ==
  LET data == ParsedData(raw) IN
  [data EXCEPT !.pii_requested = OrEmpty(data.pii_requested),
               !.violations = OrEmpty(data.violations)]

\* payload.violations.some((v) => HIGH_RISK_VIOLATIONS.has(v))
IsHighRisk(payload) ==
  \E i \in DOMAIN payload.violations :
    payload.violations[i] \in HIGH_RISK_VIOLATIONS

\* ------------------------------------------------------------- state
VARIABLES
  \* React state of Home
  status, error, history, eligibilitySummary, guardrailState, moderationLog,
  \* refs of Home
  sessionRef, listenerCleanupRef, mediaStreamRef, inputSourceRef,
  \* the status the connect callback of the last render closed over
  renderedStatus,
  \* per connect() attempt: where its async body is suspended
  pc,
  \* per attempt: its MediaStream, its input source/analyser nodes, its
  \* RealtimeSession, and the session listeners still registered
  stream, nodes, sess, listeners,
  \* moderation requests in flight, and the records stamped so far
  pending, clock,
  \* what the last callback was and what it returned
  last,
  \* sessions that delivered a validated high-risk guardrail declaration
  severed,
  \* sessions whose agent has had a guardrail_state payload validated since
  \* its last utterance began
  declared

vars ==
  <<status, error, history, eligibilitySummary, guardrailState,
    moderationLog, sessionRef, listenerCleanupRef, mediaStreamRef,
    inputSourceRef, renderedStatus, pc, stream, nodes, sess, listeners,
    pending, clock, last, severed, declared>>

SessionStatus == {"idle", "connecting", "connected", "error"}

SessionEvents == {"history_updated", "error", "audio_start"}

\* everything a callback of Home can read or write, as one value
Cur ==
  [status |-> status, error |-> error, history |-> history,
   eligibilitySummary |-> eligibilitySummary,
   guardrailState |-> guardrailState, moderationLog |-> moderationLog,
   sessionRef |-> sessionRef, listenerCleanupRef |-> listenerCleanupRef,
   mediaStreamRef |-> mediaStreamRef, inputSourceRef |-> inputSourceRef,
   stream |-> stream, nodes |-> nodes, sess |-> sess,
   listeners |-> listeners]

Commit(s) ==
  /\ status' = s.status
  /\ error' = s.error
  /\ history' = s.history
  /\ eligibilitySummary' = s.eligibilitySummary
  /\ guardrailState' = s.guardrailState
  /\ moderationLog' = s.moderationLog
  /\ sessionRef' = s.sessionRef
  /\ listenerCleanupRef' = s.listenerCleanupRef
  /\ mediaStreamRef' = s.mediaStreamRef
  /\ inputSourceRef' = s.inputSourceRef
  /\ stream' = s.stream
  /\ nodes' = s.nodes
  /\ sess' = s.sess
  /\ listeners' = s.listeners

\* ------------------------------------------------------------- teardown
\* inputSourceRef/inputAnalyserRef ?.disconnect(), then the tracks of
\* mediaStreamRef are stopped; both refs are cleared
cleanupAudio(s) ==
  [s EXCEPT
     !.nodes = [a \in Attempts |->
                  IF a = s.inputSourceRef THEN "disconnected" ELSE s.nodes[a]],
     !.inputSourceRef = NoRef,
     !.stream = [a \in Attempts |->
                   IF a = s.mediaStreamRef THEN "stopped" ELSE s.stream[a]],
     !.mediaStreamRef = NoRef]

\* every cleanup of listenerCleanupRef runs session.off(event, handler)
RunListenerCleanups(s) ==
  [s EXCEPT
     !.listeners =
        s.listeners \ {s.listenerCleanupRef[i] : i \in DOMAIN s.listenerCleanupRef},
     !.listenerCleanupRef = <<>>]

\* faulty variant: the session is closed and the handle keeps referencing it
CloseCurrentSessionKeepingHandle(s) ==
  [s EXCEPT
     !.sess = [a \in Attempts |->
                 IF a = s.sessionRef THEN "closed" ELSE s.sess[a]]]

\* if (session) session.close(), for the session sessionRef holds
CloseCurrentSession(s) ==
  [s EXCEPT
     !.sess = [a \in Attempts |->
                 IF a = s.sessionRef THEN "closed" ELSE s.sess[a]],
     !.sessionRef = NoRef]

\* faulty variant: the moderation log survives a teardown
resetSessionKeepingLog(s) ==
  LET s1 == RunListenerCleanups(s)
      s2 == cleanupAudio(s1)
      s3 == CloseCurrentSession(s2)
  IN [s3 EXCEPT !.history = <<>>,
                !.eligibilitySummary = JNull,
                !.guardrailState = JNull]

resetSession(s) ==
  LET s1 == RunListenerCleanups(s)
      s2 == cleanupAudio(s1)
      s3 == CloseCurrentSession(s2)
  IN [s3 EXCEPT !.history = <<>>,
                !.eligibilitySummary = JNull,
                !.guardrailState = JNull,
                !.moderationLog = <<>>]

\* what resetSession releases in store s, in the order of its statements:
\* the nodes (1200-1207), the tracks (1208-1211), the playback element
\* (1212-1218), the session (1230-1233)
ReleaseSteps(s) ==
  (IF s.inputSourceRef # NoRef
   THEN <<[step |-> "disconnect nodes", of |-> s.inputSourceRef]>> ELSE <<>>)
  \o (IF s.mediaStreamRef # NoRef
      THEN <<[step |-> "stop tracks", of |-> s.mediaStreamRef]>> ELSE <<>>)
  \o <<[step |-> "pause playback", of |-> NoRef]>>
  \o (IF s.sessionRef # NoRef
      THEN <<[step |-> "close session", of |-> s.sessionRef]>> ELSE <<>>)

\* ------------------------------------------------------------- guardrail
\* faulty variant: || in place of ??, blank notes fall back to the tag summary
ViolationMessageBlankFallsBack(payload) ==
  IF payload.risk_notes.t = "string" /\ Trim(payload.risk_notes.v) # <<>>
  THEN JText(Trim(payload.risk_notes.v))
  ELSE JText(<<"Guardrail triggered: ">> \o Join(payload.violations, ", "))

\* the message handleGuardrailViolation shows
ViolationMessage(payload) ==
  LET violationSummary ==
        IF Len(payload.violations) # 0
        THEN Join(payload.violations, ", ")
        ELSE <<"guardrail triggered">>
  IN IF payload.risk_notes.t = "string"
     THEN JText(Trim(payload.risk_notes.v))
     ELSE JText(<<"Guardrail triggered: ">> \o violationSummary)

handleGuardrailViolation(s, payload) ==
  LET r == resetSession(s) IN
  [r EXCEPT !.guardrailState = payload,
            !.status = "error",
            !.error = ViolationMessage(payload)]

\* faulty variant: the update is merged into the tracked state, so notes the new
\* payload omits are kept
onGuardrailUpdateMerging(s, payload) ==
  [s EXCEPT !.guardrailState =
     IF s.guardrailState # JNull /\ payload.risk_notes.t = "undefined"
     THEN [payload EXCEPT !.risk_notes = s.guardrailState.risk_notes]
     ELSE payload]

\* faulty variant: the first declaration of a session stays tracked
onGuardrailUpdateKeepingFirst(s, payload) ==
  IF s.guardrailState = JNull THEN [s EXCEPT !.guardrailState = payload]
  ELSE s

\* onGuardrailUpdate: (payload) => setGuardrailState(payload)
onGuardrailUpdate(s, payload) == [s EXCEPT !.guardrailState = payload]

\* faulty variant: any declared violation is escalated
TriggersOnAnyViolation(payload) == payload.violations # <<>>

\* the test guarding onGuardrailViolation in guardrailStateTool.execute
TriggersViolation(payload) == IsHighRisk(payload)

\* faulty variant: a payload that fails validation ends the session
GuardrailExecuteEscalatingInvalid(s, raw) ==
  IF ~SafeParseSuccess(raw)
  THEN [s |-> resetSession([s EXCEPT !.status = "error"]),
        result |-> [acknowledged |-> FALSE,
                    error |-> "invalid_guardrail_state_payload"],
        calls |-> <<>>]
  ELSE LET payload == NormalizedPayload(raw)
           u == onGuardrailUpdate(s, payload)
       IN IF TriggersViolation(payload)
          THEN [s |-> handleGuardrailViolation(u, payload),
                result |-> [acknowledged |-> TRUE],
                calls |-> <<"onGuardrailUpdate", "onGuardrailViolation">>]
          ELSE [s |-> u,
                result |-> [acknowledged |-> TRUE],
                calls |-> <<"onGuardrailUpdate">>]

\* faulty variant: a violation of any kind is escalated when the state
\* tracked before it already declared one
GuardrailExecuteContextual(s, raw) ==
  IF ~SafeParseSuccess(raw)
  THEN [s |-> s,
        result |-> [acknowledged |-> FALSE,
                    error |-> "invalid_guardrail_state_payload"],
        calls |-> <<>>]
  ELSE LET payload == NormalizedPayload(raw)
           u == onGuardrailUpdate(s, payload)
           repeated == /\ s.guardrailState # JNull
                       /\ s.guardrailState.violations # <<>>
                       /\ payload.violations # <<>>
       IN IF TriggersViolation(payload) \/ repeated
          THEN [s |-> handleGuardrailViolation(u, payload),
                result |-> [acknowledged |-> TRUE],
                calls |-> <<"onGuardrailUpdate", "onGuardrailViolation">>]
          ELSE [s |-> u,
                result |-> [acknowledged |-> TRUE],
                calls |-> <<"onGuardrailUpdate">>]

\* guardrailStateTool.execute: the state its callbacks leave, the value it
\* returns, and the callbacks it invoked, in order
GuardrailExecute(s, raw) ==
  IF ~SafeParseSuccess(raw)
  THEN [s |-> s,
        result |-> [acknowledged |-> FALSE,
                    error |-> "invalid_guardrail_state_payload"],
        calls |-> <<>>]
  ELSE LET payload == NormalizedPayload(raw)
           u == onGuardrailUpdate(s, payload)
       IN IF TriggersViolation(payload)
          THEN [s |-> handleGuardrailViolation(u, payload),
                result |-> [acknowledged |-> TRUE],
                calls |-> <<"onGuardrailUpdate", "onGuardrailViolation">>]
          ELSE [s |-> u,
                result |-> [acknowledged |-> TRUE],
                calls |-> <<"onGuardrailUpdate">>]

\* ------------------------------------------------------------- eligibility
\* faulty variant: filter(Boolean) before map(trim), a blank reason stays
\* in the list as ""
RECURSIVE CleanReasonsFilterFirst(_)
CleanReasonsFilterFirst(reasons) ==
  IF reasons = <<>> THEN <<>>
  ELSE IF Head(reasons) = <<>> THEN CleanReasonsFilterFirst(Tail(reasons))
  ELSE <<Trim(Head(reasons))>> \o CleanReasonsFilterFirst(Tail(reasons))

\* reasons?.map((r) => r.trim()).filter(Boolean) ?? []
RECURSIVE CleanReasons(_)
CleanReasons(reasons) ==
  IF reasons = <<>> THEN <<>>
  ELSE LET r == Trim(Head(reasons)) IN
       IF r = <<>> THEN CleanReasons(Tail(reasons))
       ELSE <<r>> \o CleanReasons(Tail(reasons))

\* the summary recordEligibilityTool.execute hands to setEligibilitySummary
EligibilitySummaryOf(args) ==
  LET cleanedReasons == CleanReasons(args.reasons) IN
  [eligibility |-> args.eligibility,
   reasons |-> IF Len(cleanedReasons) > 0 THEN cleanedReasons
               ELSE << <<"No reasons provided.">> >>]

\* ------------------------------------------------------------- moderation
\* text.slice(0, 8000): a text is known by its length
MODERATION_MAX_CHARS == 8000

Slice(len) == IF len > MODERATION_MAX_CHARS THEN MODERATION_MAX_CHARS ELSE len

\* the log keeps the last 10 records
MODERATION_LOG_KEEP == 10

\* faulty variant: slice(0, n), the newest records are the ones dropped
LastNKeepingOldest(xs, n) ==
  IF Len(xs) <= n THEN xs ELSE SubSeq(xs, 1, n)

\* next.slice(-10)
LastN(xs, n) ==
  IF Len(xs) <= n THEN xs ELSE SubSeq(xs, Len(xs) - n + 1, Len(xs))

\* faulty variant: a flagged record ends the session
onModerationResultEscalating(s, record) ==
  LET logged == [s EXCEPT !.moderationLog =
                             LastN(Append(@, record), MODERATION_LOG_KEEP)]
  IN IF record.flagged = JBool(TRUE)
     THEN [logged EXCEPT !.status = "error",
                         !.error = JText(<<"Guardrail violation detected.">>)]
     ELSE logged

onModerationResult(s, record) ==
  [s EXCEPT !.moderationLog = LastN(Append(@, record), MODERATION_LOG_KEEP)]

\* x?.f
EntryField(entry, f) ==
  IF entry.t = "object" /\ f \in DOMAIN entry.v THEN entry.v[f] ELSE JUndefined

\* faulty variant: the code of the reply is not looked at
ErrorCodeIgnoringBody(data) == JStr("moderation_failed")

\* data?.error ?? "moderation_failed"
ErrorCode(data) ==
  LET code == EntryField(data, "error") IN
  IF code.t \in {"undefined", "null"} THEN JStr("moderation_failed") ELSE code

\* Boolean(x), for the values a reply is sampled with (no empty string)
Truthy(x) ==
  CASE x.t = "boolean" -> x.v
    [] x.t \in {"undefined", "null"} -> FALSE
    [] x.t = "number" -> x.v # 0
    [] OTHER -> TRUE

\* faulty variant: the last entry of the results is taken
ModerationEntryLast(data) ==
  LET results == EntryField(EntryField(data, "result"), "results") IN
  IF results.t = "array" /\ results.v # <<>>
  THEN results.v[Len(results.v)] ELSE JNull

\* result = data?.result;
\* Array.isArray(result?.results) ? result.results[0] : null
\* (the first entry of an empty array is undefined, which every later ?.
\* treats as null)
ModerationEntry(data) ==
  LET results == EntryField(EntryField(data, "result"), "results") IN
  IF results.t = "array" /\ results.v # <<>> THEN results.v[1] ELSE JNull

\* x ?? undefined
OrUndefined(x) == IF x.t = "null" THEN JUndefined ELSE x

\* fetch rejected, or response.json() rejected: control goes to the catch
Throws(outcome) ==
  outcome.kind = "rejects" \/ outcome.body.t = "unparsable"

\* faulty variant: a failed check is recorded as an unflagged verdict
ModerationRecordFailedAsUnflagged(req, outcome, now) ==
  IF Throws(outcome) \/ ~outcome.ok
  THEN [phase |-> req.phase, text |-> req.text, flagged |-> JBool(FALSE),
        categories |-> JUndefined,
        error |-> IF Throws(outcome) THEN JStr("moderation_unreachable")
                  ELSE ErrorCode(outcome.body),
        timestamp |-> now]
  ELSE LET moderationEntry == ModerationEntry(outcome.body) IN
       [phase |-> req.phase, text |-> req.text,
        flagged |-> JBool(Truthy(EntryField(moderationEntry, "flagged"))),
        categories |-> OrUndefined(EntryField(moderationEntry, "categories")),
        error |-> JUndefined, timestamp |-> now]

\* the record moderationCheckTool.execute reports for a settled request;
\* a field the record literal leaves out is undefined
ModerationRecordOf(req, outcome, now) ==
  IF Throws(outcome)
  THEN [phase |-> req.phase, text |-> req.text, flagged |-> JUndefined,
        categories |-> JUndefined, error |-> JStr("moderation_unreachable"),
        timestamp |-> now]
  ELSE IF ~outcome.ok
  THEN [phase |-> req.phase, text |-> req.text, flagged |-> JUndefined,
        categories |-> JUndefined, error |-> ErrorCode(outcome.body),
        timestamp |-> now]
  ELSE LET moderationEntry == ModerationEntry(outcome.body) IN
       [phase |-> req.phase, text |-> req.text,
        flagged |-> JBool(Truthy(EntryField(moderationEntry, "flagged"))),
        categories |-> OrUndefined(EntryField(moderationEntry, "categories")),
        error |-> JUndefined, timestamp |-> now]

\* faulty variant: the catch block returns without reporting a record
ModerationExecuteSilentCatch(req, outcome, now) ==
  LET record == ModerationRecordOf(req, outcome, now) IN
  IF Throws(outcome)
  THEN [result |-> [moderated |-> FALSE,
                    error |-> JStr("moderation_unreachable")],
        reports |-> <<>>]
  ELSE IF ~outcome.ok
  THEN [result |-> [moderated |-> FALSE, error |-> ErrorCode(outcome.body)],
        reports |-> <<record>>]
  ELSE [result |-> [moderated |-> TRUE, flagged |-> record.flagged,
                    categories |-> record.categories],
        reports |-> <<record>>]

\* moderationCheckTool.execute once its request has settled: the value it
\* returns and the records it hands to onModerationResult, in order
ModerationExecute(req, outcome, now) ==
  LET record == ModerationRecordOf(req, outcome, now) IN
  IF Throws(outcome)
  THEN [result |-> [moderated |-> FALSE,
                    error |-> JStr("moderation_unreachable")],
        reports |-> <<record>>]
  ELSE IF ~outcome.ok
  THEN [result |-> [moderated |-> FALSE, error |-> ErrorCode(outcome.body)],
        reports |-> <<record>>]
  ELSE [result |-> [moderated |-> TRUE, flagged |-> record.flagged,
                    categories |-> record.categories],
        reports |-> <<record>>]

\* onModerationResult for each reported record, in order
RECURSIVE ReportAll(_, _)
ReportAll(s, reports) ==
  IF reports = <<>> THEN s
  ELSE ReportAll(onModerationResult(s, Head(reports)), Tail(reports))

\* ------------------------------------------------------------- study lookup
UpperLetters == "ABCDEFGHIJKLMNOPQRSTUVWXYZ"

LowerLetters == "abcdefghijklmnopqrstuvwxyz"

Digits == "0123456789"

\* does the one-character string c occur in the string s
CharIn(c, s) == \E i \in 1..Len(s) : SubSeq(s, i, i) = c

LowerChar(c) ==
  IF CharIn(c, UpperLetters)
  THEN LET i == CHOOSE i \in 1..Len(UpperLetters) : SubSeq(UpperLetters, i, i) = c
       IN SubSeq(LowerLetters, i, i)
  ELSE c

\* question.toLowerCase()
RECURSIVE ToLowerCase(_)
ToLowerCase(s) ==
  IF Len(s) = 0 THEN ""
  ELSE LowerChar(SubSeq(s, 1, 1)) \o ToLowerCase(SubSeq(s, 2, Len(s)))

\* normalized.includes(keyword)
Includes(s, keyword) ==
  \E i \in 1..(Len(s) - Len(keyword) + 1) :
    SubSeq(s, i, i + Len(keyword) - 1) = keyword

\* the sections array of buildStudySections; the content of a section is
\* text assembled from study_details.json and is known by its section
StudySections ==
  <<[name |-> "overview", title |-> "Overview",
     keywords |-> <<"overview", "study", "trial", "what", "summary", "title">>,
     content |-> [of |-> "overview"]],
    [name |-> "status", title |-> "Status & Timeline",
     keywords |-> <<"status", "timeline", "start", "completion", "recruit",
                    "date">>,
     content |-> [of |-> "status"]],
    [name |-> "eligibility", title |-> "Eligibility",
     keywords |-> <<"eligibility", "inclusion", "exclusion", "criteria">>,
     content |-> [of |-> "eligibility"]],
    [name |-> "intervention", title |-> "Intervention",
     keywords |-> <<"intervention", "treatment", "arm">>,
     content |-> [of |-> "intervention"]],
    [name |-> "outcomes", title |-> "Outcomes",
     keywords |-> <<"outcome", "measure", "endpoint">>,
     content |-> [of |-> "outcomes"]],
    [name |-> "contacts", title |-> "Contacts",
     keywords |-> <<"contact", "phone", "email", "investigator">>,
     content |-> [of |-> "contacts"]],
    [name |-> "locations", title |-> "Locations",
     keywords |-> <<"location", "site", "where">>,
     content |-> [of |-> "locations"]]>>

\* section.keywords.some((keyword) => normalized.includes(keyword))
KeywordMatch(section, normalized) ==
  \E k \in DOMAIN section.keywords : Includes(normalized, section.keywords[k])

IsDefaultSection(section) == section.name \in {"overview", "status"}

\* faulty variant: a question matching nothing gets an empty list
MatchedSectionsOrNone(sections, question) ==
  LET normalized == ToLowerCase(question)
      Hit(section) == KeywordMatch(section, normalized)
  IN SelectSeq(sections, Hit)

\* the matching and the fallback common to buildStudySections and
\* matchStudySections
MatchedSections(sections, question) ==
  LET normalized == ToLowerCase(question)
      Hit(section) == KeywordMatch(section, normalized)
      matched == SelectSeq(sections, Hit)
  IN IF Len(matched) > 0 THEN matched
     ELSE SelectSeq(sections, IsDefaultSection)

buildStudySections(question) == MatchedSections(StudySections, question)

\* STUDY_INFO.sections of lib/study-info.ts
STUDY_INFO ==
  [sections |->
     <<[name |-> "overview", title |-> "Overview",
        keywords |-> <<"overview", "study", "trial", "summary", "title">>,
        content |-> [of |-> "overview"]],
       [name |-> "status", title |-> "Status & Timeline",
        keywords |-> <<"status", "timeline", "start", "completion", "recruit",
                       "date">>,
        content |-> [of |-> "status"]],
       [name |-> "eligibility", title |-> "Eligibility",
        keywords |-> <<"eligibility", "inclusion", "exclusion", "criteria">>,
        content |-> [of |-> "eligibility"]],
       [name |-> "intervention", title |-> "Intervention",
        keywords |-> <<"intervention", "treatment", "arm">>,
        content |-> [of |-> "intervention"]],
       [name |-> "outcomes", title |-> "Outcomes",
        keywords |-> <<"outcome", "measure", "endpoint">>,
        content |-> [of |-> "outcomes"]],
       [name |-> "contacts", title |-> "Contacts",
        keywords |-> <<"contact", "phone", "email", "investigator">>,
        content |-> [of |-> "contacts"]],
       [name |-> "locations", title |-> "Locations",
        keywords |-> <<"location", "site", "where">>,
        content |-> [of |-> "locations"]]>>,
   lastUpdated |-> "2025-03-24",
   source |-> "study_details.json"]

matchStudySections(question) == MatchedSections(STUDY_INFO.sections, question)

\* \w of a regular expression
IsWordChar(c) ==
  CharIn(c, UpperLetters) \/ CharIn(c, LowerLetters) \/ CharIn(c, Digits)
    \/ c = "_"

\* \b at position i of s (between s[i-1] and s[i])
WordBoundary(s, i) ==
  LET before == i > 1 /\ IsWordChar(SubSeq(s, i - 1, i - 1))
      after == i <= Len(s) /\ IsWordChar(SubSeq(s, i, i))
  IN before # after

\* /\b(raw|json|full record)\b/i.test(question)
IncludeRawRecord(question) ==
  LET s == ToLowerCase(question) IN
  \E w \in {"raw", "json", "full record"} :
    \E i \in 1..(Len(s) - Len(w) + 1) :
      /\ SubSeq(s, i, i + Len(w) - 1) = w
      /\ WordBoundary(s, i)
      /\ WordBoundary(s, i + Len(w))

\* lookupInfoTool.execute: the response it returns
LookupInfoExecute(question) ==
  LET sections == buildStudySections(question)
      response ==
        [sections |-> [i \in DOMAIN sections |->
                         [title |-> sections[i].title,
                          content |-> sections[i].content]],
         matched_sections |-> [i \in DOMAIN sections |-> sections[i].title],
         last_updated |-> [of |-> "study_details.json"],
         source |-> "study_details.json"]
  IN IF IncludeRawRecord(question)
     THEN [response |-> response, raw |-> [of |-> "study_details.json"]]
     ELSE [response |-> response, raw |-> JUndefined]

\* ------------------------------------------------------------- connect
\* the catch block of connect
ConnectCatch(s, err) ==
  LET message == IF err.isError THEN JText(err.message)
                 ELSE JText(<<"Unable to start realtime session.">>)
  IN resetSession([s EXCEPT !.error = message, !.status = "error"])

\* lines 1308-1438 of connect, run without suspension once getUserMedia
\* has resolved: the stream and the input nodes are stored, the session is
\* created, its listeners are registered, session.connect() is started
ConnectSetup(s, a) ==
  [s EXCEPT
     !.mediaStreamRef = a,
     !.stream = [@ EXCEPT ![a] = "live"],
     !.nodes = [@ EXCEPT ![a] = "connected"],
     !.inputSourceRef = a,
     !.listeners = @ \cup {<<a, ev>> : ev \in SessionEvents},
     !.listenerCleanupRef =
        @ \o << <<a, "history_updated">>, <<a, "error">>, <<a, "audio_start">> >>,
     !.sess = [@ EXCEPT ![a] = "connecting"]]

\* faulty variant: the handle is stored and the status is left alone
ConnectCompleteKeepingStatus(s, a) == [s EXCEPT !.sessionRef = a]

\* after await session.connect(): the handle is stored
ConnectComplete(s, a) ==
  [s EXCEPT !.sessionRef = a, !.status = "connected"]

\* handleError
handleError(s, event) ==
  LET message ==
        IF event.kind = "Error" THEN JText(event.message)
        ELSE IF event.kind = "string" THEN JText(event.message)
        ELSE JText(<<"Unexpected realtime error.">>)
  IN [s EXCEPT !.status = "error", !.error = message]

\* handleAudioStart
handleAudioStart(s) == [s EXCEPT !.status = "connected"]

\* disconnect
disconnect(s) ==
  [resetSession(s) EXCEPT !.status = "idle", !.error = JNull]

\* ------------------------------------------------------------- inputs
\* thrown values and rejections
ErrorOf(message) == [isError |-> TRUE, message |-> message]
NotAnError == [isError |-> FALSE]

Settled == [ok |-> TRUE]
Rejected(err) == [ok |-> FALSE, err |-> err]

\* how the credential request of connect can settle
FetchOutcomes ==
  {Settled,
   \* fetch rejects
   Rejected(ErrorOf(<<"Failed to fetch">>)),
   \* !response.ok, with and without details.error
   Rejected(ErrorOf(<<"Missing OPENAI_API_KEY.">>)),
   Rejected(ErrorOf(<<"Failed to retrieve realtime client secret.">>)),
   \* no client_secret in the reply
   Rejected(ErrorOf(<<"Realtime client secret not present in server reply.">>))}

\* audioContext.resume() or getUserMedia() rejects
MediaOutcomes ==
  {Settled, Rejected(ErrorOf(<<"resume failed">>)),
   Rejected(ErrorOf(<<"Permission denied">>))}

\* session.connect() rejects, with an Error or with something else
SessionConnectOutcomes ==
  {Settled, Rejected(ErrorOf(<<"connect failed">>)), Rejected(NotAnError)}

ErrorEvents ==
  {[kind |-> "Error", message |-> <<"connection lost">>],
   [kind |-> "string", message |-> <<"ice failed">>],
   [kind |-> "other"]}

HistorySample == {<<"message">>}

\* all sequences over S of length at most n
RECURSIVE SeqsUpTo(_, _)
SeqsUpTo(S, n) ==
  IF n = 0 THEN {<<>>}
  ELSE LET shorter == SeqsUpTo(S, n - 1) IN
       shorter \cup {Append(xs, x) : xs \in shorter, x \in S}

Wrap(xs) == [i \in DOMAIN xs |-> JStr(xs[i])]

RawPayload(st, ac, pii, viol, notes) ==
  [state |-> st, action |-> ac, pii_requested |-> pii, violations |-> viol,
   risk_notes |-> notes]

\* violations arrays: every array up to MaxViolations over a high-risk and
\* two low-risk tags, and every tag of the schema alone
ViolationArrays ==
  {JArr(Wrap(xs)) :
     xs \in SeqsUpTo({"EMERGENCY_SIGNAL", "OUT_OF_SCOPE", "ADVICE_MEDICAL"},
                     MaxViolations)}
  \cup {JArr(<<JStr(tag)>>) : tag \in ViolationTags}

NotesSample ==
  {JUndefined, JText(<<>>), JText(<<" ">>), JText(<<" ", "a", " ">>),
   JText(<<"a", " ", "b">>)}

\* payloads that pass the schema
ValidPayloads ==
  {RawPayload(sap[1], sap[2], sap[3], viol, notes) :
     sap \in {<<JStr("SCREENING"), JStr("ASK"), JUndefined>>,
              <<JStr("END"), JStr("GOODBYE"),
                JArr(<<JStr("EMAIL"), JStr("PHONE")>>)>>},
     viol \in {JUndefined} \cup ViolationArrays,
     notes \in NotesSample}

BasePayload ==
  RawPayload(JStr("SCREENING"), JStr("ASK"), JArr(<<JStr("AGE")>>),
             JArr(<<JStr("EMERGENCY_SIGNAL")>>), JText(<<"a">>))

\* payloads that fail it, one per way of failing
InvalidPayloads ==
  {[BasePayload EXCEPT !.state = JStr("PAUSED")],
   [BasePayload EXCEPT !.state = JUndefined],
   [BasePayload EXCEPT !.state = JNumber(1)],
   [BasePayload EXCEPT !.action = JStr("SHOUT")],
   [BasePayload EXCEPT !.action = JUndefined],
   [BasePayload EXCEPT !.pii_requested = JArr(<<JStr("SSN")>>)],
   [BasePayload EXCEPT !.pii_requested = JNull],
   [BasePayload EXCEPT !.violations = JArr(<<JStr("MINOR_USER"), JStr("RUDE")>>)],
   [BasePayload EXCEPT !.violations = JStr("EMERGENCY_SIGNAL")],
   [BasePayload EXCEPT !.risk_notes = JNumber(7)],
   [BasePayload EXCEPT !.risk_notes = JNull]}

EligibilitySample ==
  {[eligibility |-> "eligible", reasons |-> << <<" ">>, <<>> >>],
   [eligibility |-> "review", reasons |-> << <<" ", "a", " ">> >>]}

\* questions put to lookup_info: one or two of these, separated by a space
QuestionWords ==
  {"What", "asdf", "ARM", "pharmacy", "Where", "SITE", "raw", "draw",
   "Full Record", "contact?", "exclusion criteria", "Outcome"}

Questions ==
  QuestionWords \cup {v \o " " \o w : v, w \in QuestionWords}

\* reasons as the agent may word them: blank, padded, plain
ReasonTexts ==
  {<<>>, <<" ">>, <<" ", "a", " ">>, <<"a", " ", "b">>}

MaxReasons == 2

\* z.object({eligibility: z.enum([...]), reasons: z.array(z.string()).min(1)})
EligibilityArgs ==
  {[eligibility |-> e, reasons |-> rs] :
     e \in {"eligible", "ineligible", "review"},
     rs \in SeqsUpTo(ReasonTexts, MaxReasons) \ {<<>>}}

\* text lengths around the limit
TextLengths == {1, MODERATION_MAX_CHARS + 1}

ModerationPhases == {"user_input", "assistant_plan"}

\* a classifier reply as /api/moderation wraps it
Classified(entries) == JObj([phase |-> JStr("assistant_plan"),
                             result |-> JObj([results |-> JArr(entries)])])

Unparsable == [t |-> "unparsable"]

Replied(ok, body) == [kind |-> "response", ok |-> ok, body |-> body]

\* how the request of moderation_check can settle
ModerationOutcomes ==
  {[kind |-> "rejects"],
   Replied(FALSE, Unparsable),
   Replied(TRUE, Unparsable),
   Replied(FALSE, JObj([error |-> JStr("missing_text")])),
   Replied(FALSE, JObj([error |-> JStr("moderation_unreachable")])),
   Replied(FALSE, JObj([error |-> JNull])),
   Replied(FALSE, JObj([details |-> JStr("x")])),
   Replied(FALSE, JNull),
   Replied(TRUE, Classified(<<JObj([flagged |-> JBool(TRUE),
                                    categories |->
                                      JObj([violence |-> JBool(TRUE)])]),
                              JObj([flagged |-> JBool(FALSE),
                                    categories |-> JObj([violence |-> JBool(FALSE)])])>>)),
   Replied(TRUE, Classified(<<JObj([flagged |-> JBool(FALSE),
                                    categories |-> JNull])>>)),
   Replied(TRUE, Classified(<<JObj([id |-> JStr("x")])>>)),
   Replied(TRUE, Classified(<<>>)),
   Replied(TRUE, JObj([result |-> JObj([results |-> JStr("x")])])),
   Replied(TRUE, JObj([result |-> JNull])),
   Replied(TRUE, JNull)}

\* ------------------------------------------------------------- server routes
\* a text given by its runs of equal characters, [c |-> " ", n |-> 3]
JRuns(rs) == [t |-> "string", v |-> rs]

RECURSIVE RunsLength(_)
RunsLength(rs) ==
  IF rs = <<>> THEN 0 ELSE Head(rs).n + RunsLength(Tail(rs))

\* text.trim() on runs
RECURSIVE TrimStartRuns(_)
TrimStartRuns(rs) ==
  IF rs # <<>> /\ (IsWhite(Head(rs).c) \/ Head(rs).n = 0)
  THEN TrimStartRuns(Tail(rs)) ELSE rs

RECURSIVE TrimEndRuns(_)
TrimEndRuns(rs) ==
  IF rs # <<>> /\ (IsWhite(rs[Len(rs)].c) \/ rs[Len(rs)].n = 0)
  THEN TrimEndRuns(SubSeq(rs, 1, Len(rs) - 1))
  ELSE rs

TrimRuns(rs) == TrimEndRuns(TrimStartRuns(rs))

\* text.slice(0, n) on runs
RECURSIVE SliceRuns(_, _)
SliceRuns(rs, n) ==
  IF rs = <<>> \/ n <= 0 THEN <<>>
  ELSE IF Head(rs).n >= n THEN <<[c |-> Head(rs).c, n |-> n]>>
  ELSE <<Head(rs)>> \o SliceRuns(Tail(rs), n - Head(rs).n)

\* an exception leaving a block
Thrown == [kind |-> "throws"]

\* the statuses a Response cannot carry together with a body
NullBodyStatuses == {101, 204, 205, 304}

\* JSON.stringify of an object: properties whose value is undefined are
\* left out
Serialize(body) ==
  IF body.t = "object"
  THEN JObj([f \in {g \in DOMAIN body.v : body.v[g] # JUndefined} |-> body.v[f]])
  ELSE body

\* NextResponse.json(body, {status}): Response.json throws for a status
\* outside 200..599 and for a null-body status
NextResponseJson(body, statusCode) ==
  IF statusCode < 200 \/ statusCode > 599 \/ statusCode \in NullBodyStatuses
  THEN Thrown
  ELSE [kind |-> "response", status |-> statusCode, body |-> Serialize(body)]

\* what fetch resolves with
Upstream(statusCode, body) ==
  [kind |-> "response", status |-> statusCode,
   ok |-> statusCode \in 200..299, body |-> body]

\* faulty variant: only an unset variable counts as missing
MissingKeyOnlyUnset(apiKey) == apiKey = JUndefined

\* !apiKey
MissingKey(apiKey) == apiKey = JUndefined \/ apiKey = JStr("")

OPENAI_REALTIME_URL == "https://api.openai.com/v1/realtime/client_secrets"

\* process.env.NEXT_PUBLIC_OPENAI_REALTIME_MODEL ?? "gpt-realtime-mini"
DEFAULT_REALTIME_MODEL(env) ==
  IF env.NEXT_PUBLIC_OPENAI_REALTIME_MODEL = JUndefined
  THEN JStr("gpt-realtime-mini")
  ELSE env.NEXT_PUBLIC_OPENAI_REALTIME_MODEL

\* data.f on a parsed JSON value other than null
Property(data, f) == EntryField(data, f)

\* faulty variant: the secret's id is handed out as the secret
ClientSecretPayloadSwapped(data) ==
  JObj([client_secret |-> Property(data, "id"),
        expires_at |-> Property(data, "expires_at"),
        client_secret_id |-> Property(data, "value")])

ClientSecretPayload(data) ==
  JObj([client_secret |-> Property(data, "value"),
        expires_at |-> Property(data, "expires_at"),
        client_secret_id |-> Property(data, "id")])

\* the try block of the credential route
RealtimeSessionTry(upstream) ==
  IF upstream.kind = "rejects" THEN Thrown
  ELSE IF ~upstream.ok
  THEN LET errorResponse == IF upstream.body = Unparsable THEN JObj(<<>>)
                            ELSE upstream.body
       IN NextResponseJson(
            JObj([error |-> JStr("Failed to create realtime client secret."),
                  details |-> errorResponse]),
            upstream.status)
  ELSE IF upstream.body = Unparsable \/ upstream.body = JNull THEN Thrown
  ELSE NextResponseJson(ClientSecretPayload(upstream.body), 200)

\* POST of /api/realtime-session: its response and the requests it sent
RealtimeSessionPOST(env, upstream) ==
  LET apiKey == env.OPENAI_API_KEY IN
  IF MissingKey(apiKey)
  THEN [response |->
          NextResponseJson(
            JObj([error |->
                    JStr("Missing OPENAI_API_KEY server environment variable.")]),
            500),
        requests |-> <<>>]
  ELSE LET tried == RealtimeSessionTry(upstream) IN
       [response |->
          IF tried = Thrown
          THEN NextResponseJson(
                 JObj([error |->
                         JStr("Unexpected error while creating realtime client secret.")]),
                 500)
          ELSE tried,
        requests |->
          <<[url |-> OPENAI_REALTIME_URL, method |-> "POST",
             authorization |-> "Bearer " \o apiKey.v,
             body |-> [session |-> [type |-> "realtime",
                                    model |-> DEFAULT_REALTIME_MODEL(env)]]]>>]

MODERATION_URL == "https://api.openai.com/v1/moderations"

\* the try block of the moderation route
ModerationRouteTry(phase, upstream) ==
  IF upstream.kind = "rejects" \/ upstream.body = Unparsable THEN Thrown
  ELSE IF ~upstream.ok
  THEN NextResponseJson(JObj([error |-> JStr("moderation_failed"),
                              details |-> upstream.body]),
                        upstream.status)
  ELSE NextResponseJson(JObj([phase |-> phase, result |-> upstream.body]), 200)

\* POST of /api/moderation: its response, or the exception it lets
\* through, and the requests it sent
ModerationPOST(env, requestBody, upstream) ==
  LET apiKey == env.OPENAI_API_KEY IN
  IF MissingKey(apiKey)
  THEN [response |->
          NextResponseJson(JObj([error |-> JStr("missing_openai_api_key")]), 500),
        requests |-> <<>>]
  ELSE IF requestBody = Unparsable
  THEN [response |->
          NextResponseJson(JObj([error |-> JStr("invalid_json")]), 400),
        requests |-> <<>>]
  ELSE IF requestBody = JNull
  THEN [response |-> Thrown, requests |-> <<>>]
  ELSE LET given == Property(requestBody, "text")
           text == IF given.t = "string" THEN given ELSE JRuns(<<>>)
           givenPhase == Property(requestBody, "phase")
           phase == IF givenPhase.t = "string" THEN givenPhase
                    ELSE JStr("unknown")
       IN IF RunsLength(TrimRuns(text.v)) = 0
          THEN [response |->
                  NextResponseJson(JObj([error |-> JStr("missing_text")]), 400),
                requests |-> <<>>]
          ELSE LET tried == ModerationRouteTry(phase, upstream) IN
               [response |->
                  IF tried = Thrown
                  THEN NextResponseJson(
                         JObj([error |-> JStr("moderation_unreachable")]), 500)
                  ELSE tried,
                requests |->
                  <<[url |-> MODERATION_URL, method |-> "POST",
                     authorization |-> "Bearer " \o apiKey.v,
                     body |-> [model |-> "omni-moderation-latest",
                               input |-> JRuns(SliceRuns(text.v,
                                                         MODERATION_MAX_CHARS))]]>>]

\* the server environment
RouteEnvs ==
  {[OPENAI_API_KEY |-> k, NEXT_PUBLIC_OPENAI_REALTIME_MODEL |-> m] :
     k \in {JUndefined, JStr(""), JStr("test-key")},
     m \in {JUndefined, JStr("gpt-realtime")}}

\* the provider's reply to a credential request
ClientSecretResponse ==
  JObj([id |-> JStr("cs_123"), object |-> JStr("client_secret"),
        created |-> JNumber(1), expires_at |-> JNumber(2),
        value |-> JStr("secret")])

UpstreamStatuses == {200, 201, 304, 400, 401, 429, 500, 503}

RealtimeUpstreams ==
  {[kind |-> "rejects"]}
    \cup {Upstream(st, body) :
            st \in UpstreamStatuses,
            body \in {Unparsable, JNull, JObj(<<>>), ClientSecretResponse,
                      JObj([error |-> JStr("unauthorized")])}}

\* texts around blankness and around the length limit
RouteTexts ==
  {<<>>, <<[c |-> " ", n |-> 3]>>, <<[c |-> "a", n |-> 1]>>,
   <<[c |-> " ", n |-> 1], [c |-> "a", n |-> MODERATION_MAX_CHARS],
     [c |-> " ", n |-> 1]>>}

\* what a caller may post to /api/moderation
ModerationRequestBodies ==
  {Unparsable, JNull, JNumber(5),
   JObj([phase |-> JStr("user_input")]),
   JObj([text |-> JNumber(7), phase |-> JStr("user_input")])}
    \cup {JObj([text |-> JRuns(rs), phase |-> JStr("assistant_plan")]) :
            rs \in RouteTexts}
    \cup {JObj([text |-> JRuns(<<[c |-> "a", n |-> 1]>>)]),
          JObj([text |-> JRuns(<<[c |-> "a", n |-> 1]>>),
                phase |-> JNumber(1)])}

ModerationUpstreams ==
  {[kind |-> "rejects"]}
    \cup {Upstream(st, body) :
            st \in {200, 304, 401, 502},
            body \in {Unparsable,
                      JObj([results |-> JArr(<<>>)]),
                      JObj([error |-> JStr("unauthorized")])}}

\* ------------------------------------------------------------- actions
Op(name, a, info) == [op |-> name, a |-> a, info |-> info]

Unused == {a \in Attempts : pc[a] = "unused"}

Init ==
  /\ status = "idle"
  /\ error = JNull
  /\ history = <<>>
  /\ eligibilitySummary = JNull
  /\ guardrailState = JNull
  /\ moderationLog = <<>>
  /\ sessionRef = NoRef
  /\ listenerCleanupRef = <<>>
  /\ mediaStreamRef = NoRef
  /\ inputSourceRef = NoRef
  /\ renderedStatus = "idle"
  /\ pc = [a \in Attempts |-> "unused"]
  /\ stream = [a \in Attempts |-> "none"]
  /\ nodes = [a \in Attempts |-> "none"]
  /\ sess = [a \in Attempts |-> "none"]
  /\ listeners = {}
  /\ pending = <<>>
  /\ clock = 0
  /\ last = [op |-> "init", a |-> NoRef, info |-> JNull]
  /\ severed = {}
  /\ declared = {}

\* React commits the updates made outside a click handler (by a
\* continuation, a transport event or a tool call): the callbacks of the new
\* render close over the new status
Render ==
  /\ renderedStatus # status
  /\ renderedStatus' = status
  /\ UNCHANGED <<status, error, history, eligibilitySummary, guardrailState,
                 moderationLog, sessionRef, listenerCleanupRef, mediaStreamRef,
                 inputSourceRef, pc, stream, nodes, sess, listeners, pending,
                 clock, last, severed, declared>>

\* faulty variant: connect() without its guard on the status
ConnectUnguarded(a) ==
  /\ a \in Unused /\ \A m \in Unused : a <= m
  /\ Commit(resetSession([Cur EXCEPT !.status = "connecting",
                                     !.error = JNull]))
  /\ pc' = [pc EXCEPT ![a] = "fetch"]
  /\ last' = Op("connect", a, JNull)
  /\ renderedStatus' = "connecting"
  /\ UNCHANGED <<pending, clock, severed, declared>>

\* connect(), up to its first await.  connect and disconnect run as click
\* handlers: React re-renders with their updates before the next event
Connect(a) ==
  /\ renderedStatus # "connecting"
  /\ a \in Unused /\ \A m \in Unused : a <= m
  /\ Commit(resetSession([Cur EXCEPT !.status = "connecting",
                                     !.error = JNull]))
  /\ pc' = [pc EXCEPT ![a] = "fetch"]
  /\ last' = Op("connect", a, JNull)
  /\ renderedStatus' = "connecting"
  /\ UNCHANGED <<pending, clock, severed, declared>>

\* connect() while the rendered status is connecting: returns at once
ConnectIgnored ==
  /\ renderedStatus = "connecting"
  /\ last' = Op("connect_ignored", NoRef, JNull)
  /\ UNCHANGED <<status, error, history, eligibilitySummary, guardrailState,
                 moderationLog, sessionRef, listenerCleanupRef, mediaStreamRef,
                 inputSourceRef, renderedStatus, pc, stream, nodes, sess,
                 listeners, pending, clock, severed, declared>>

\* await fetch("/api/realtime-session") and the reading of its body
FetchDone(a, r) ==
  /\ pc[a] = "fetch"
  /\ IF r.ok
     THEN /\ pc' = [pc EXCEPT ![a] = "media"]
          /\ UNCHANGED <<status, error, history, eligibilitySummary,
                         guardrailState, moderationLog, sessionRef,
                         listenerCleanupRef, mediaStreamRef, inputSourceRef,
                         stream, nodes, sess, listeners>>
     ELSE /\ pc' = [pc EXCEPT ![a] = "done"]
          /\ Commit(ConnectCatch(Cur, r.err))
  /\ last' = Op("fetch_done", a,
                [failed |-> ~r.ok,
                 released |-> IF r.ok THEN <<>> ELSE ReleaseSteps(Cur)])
  /\ UNCHANGED <<renderedStatus, pending, clock, severed, declared>>

\* await audioContext.resume() and await getUserMedia(...): nothing the
\* component holds changes between the two, so they settle as one step
MediaDone(a, r) ==
  /\ pc[a] = "media"
  /\ IF r.ok
     THEN /\ pc' = [pc EXCEPT ![a] = "session.connect"]
          /\ Commit(ConnectSetup(Cur, a))
     ELSE /\ pc' = [pc EXCEPT ![a] = "done"]
          /\ Commit(ConnectCatch(Cur, r.err))
  /\ last' = Op("media_done", a,
                [failed |-> ~r.ok,
                 released |-> IF r.ok THEN <<>> ELSE ReleaseSteps(Cur)])
  /\ UNCHANGED <<renderedStatus, pending, clock, severed, declared>>

\* the transport of attempt a's session comes up: from now on the session
\* delivers events and tool calls
TransportOpen(a) ==
  /\ sess[a] = "connecting"
  /\ sess' = [sess EXCEPT ![a] = "live"]
  /\ last' = Op("transport_open", a, JNull)
  /\ UNCHANGED <<status, error, history, eligibilitySummary, guardrailState,
                 moderationLog, sessionRef, listenerCleanupRef, mediaStreamRef,
                 inputSourceRef, renderedStatus, pc, stream, nodes, listeners,
                 pending, clock, severed, declared>>

\* await session.connect(...) settles
SessionConnectDone(a, r) ==
  /\ pc[a] = "session.connect"
  /\ pc' = [pc EXCEPT ![a] = "done"]
  /\ IF r.ok
     THEN /\ sess[a] = "live"
          /\ Commit(ConnectComplete(Cur, a))
     ELSE /\ sess[a] = "connecting"
          /\ Commit(ConnectCatch([Cur EXCEPT !.sess[a] = "failed"], r.err))
  /\ last' = Op("session.connect_done", a,
                [failed |-> ~r.ok,
                 released |-> IF r.ok THEN <<>> ELSE ReleaseSteps(Cur)])
  /\ UNCHANGED <<renderedStatus, pending, clock, severed, declared>>

Listening(a, ev) == <<a, ev>> \in listeners

\* session a emits history_updated
HistoryUpdated(a, items) ==
  /\ sess[a] = "live"
  /\ Listening(a, "history_updated")
  /\ history' = items
  /\ last' = Op("history_updated", a, JNull)
  /\ UNCHANGED <<status, error, eligibilitySummary, guardrailState,
                 moderationLog, sessionRef, listenerCleanupRef, mediaStreamRef,
                 inputSourceRef, renderedStatus, pc, stream, nodes, sess,
                 listeners, pending, clock, severed, declared>>

\* session a emits error
ErrorEvent(a, event) ==
  /\ sess[a] \in {"connecting", "live"}
  /\ Listening(a, "error")
  /\ Commit(handleError(Cur, event))
  /\ last' = Op("error_event", a, [before |-> [status |-> status]])
  /\ UNCHANGED <<renderedStatus, pc, pending, clock, severed, declared>>

\* session a emits audio_start
AudioStart(a) ==
  /\ sess[a] = "live"
  /\ Listening(a, "audio_start")
  /\ Commit(handleAudioStart(Cur))
  /\ last' = Op("audio_start", a, [declared |-> a \in declared])
  /\ declared' = declared \ {a}
  /\ UNCHANGED <<renderedStatus, pc, pending, clock, severed>>

\* the agent of session a calls guardrail_state
GuardrailStateCall(a, raw) ==
  /\ sess[a] = "live"
  /\ LET r == GuardrailExecute(Cur, raw) IN
     /\ Commit(r.s)
     /\ last' = Op("guardrail_state", a,
                   [raw |-> raw, result |-> r.result, calls |-> r.calls,
                    before |-> [status |-> status,
                                guardrailState |-> guardrailState,
                                sessionRef |-> sessionRef],
                    released |-> IF r.calls = <<"onGuardrailUpdate",
                                                "onGuardrailViolation">>
                                 THEN ReleaseSteps(Cur) ELSE <<>>])
     /\ severed' = IF "onGuardrailViolation" \in {r.calls[i] : i \in DOMAIN r.calls}
                   THEN severed \cup {a} ELSE severed
     /\ declared' = IF r.result.acknowledged THEN declared \cup {a}
                    ELSE declared
  /\ UNCHANGED <<renderedStatus, pc, pending, clock>>

\* the agent of session a calls record_eligibility
RecordEligibilityCall(a, args) ==
  /\ sess[a] = "live"
  /\ eligibilitySummary' = EligibilitySummaryOf(args)
  /\ last' = Op("record_eligibility", a,
                [args |-> args, result |-> [recorded |-> TRUE],
                 before |-> [eligibility |->
                               IF eligibilitySummary = JNull THEN JNull
                               ELSE JStr(eligibilitySummary.eligibility)]])
  /\ UNCHANGED <<status, error, history, guardrailState, moderationLog,
                 sessionRef, listenerCleanupRef, mediaStreamRef,
                 inputSourceRef, renderedStatus, pc, stream, nodes, sess,
                 listeners, pending, clock, severed, declared>>

\* the agent of session a calls lookup_info
LookupInfoCall(a, question) ==
  /\ sess[a] = "live"
  /\ last' = Op("lookup_info", a,
                [question |-> question, result |-> LookupInfoExecute(question)])
  /\ UNCHANGED <<status, error, history, eligibilitySummary, guardrailState,
                 moderationLog, sessionRef, listenerCleanupRef, mediaStreamRef,
                 inputSourceRef, renderedStatus, pc, stream, nodes, sess,
                 listeners, pending, clock, severed, declared>>

\* the agent of session a calls moderation_check: the request is sent (by
\* remembers the calling session)
ModerationCheckCall(a, len, phase) ==
  /\ sess[a] = "live"
  /\ pending' = Append(pending, [phase |-> phase, text |-> Slice(len),
                                 by |-> a])
  /\ last' = Op("moderation_check", a, JNull)
  /\ UNCHANGED <<status, error, history, eligibilitySummary, guardrailState,
                 moderationLog, sessionRef, listenerCleanupRef, mediaStreamRef,
                 inputSourceRef, renderedStatus, pc, stream, nodes, sess,
                 listeners, clock, severed, declared>>

RemoveAt(xs, i) == SubSeq(xs, 1, i - 1) \o SubSeq(xs, i + 1, Len(xs))

\* the i-th request in flight settles; execute reports and returns
ModerationDone(i, outcome) ==
  /\ i \in DOMAIN pending
  /\ LET r == ModerationExecute(pending[i], outcome, clock + 1) IN
     /\ Commit(ReportAll(Cur, r.reports))
     /\ last' = Op("moderation_done", NoRef,
                   [req |-> pending[i], outcome |-> outcome,
                    result |-> r.result, reports |-> r.reports])
  /\ pending' = RemoveAt(pending, i)
  /\ clock' = clock + 1
  /\ UNCHANGED <<renderedStatus, pc, severed, declared>>

\* a request to /api/realtime-session is served
RealtimeSessionRequest(env, upstream) ==
  /\ last' = Op("realtime_session_post", NoRef,
                [env |-> env, upstream |-> upstream,
                 served |-> RealtimeSessionPOST(env, upstream)])
  /\ UNCHANGED <<status, error, history, eligibilitySummary, guardrailState,
                 moderationLog, sessionRef, listenerCleanupRef, mediaStreamRef,
                 inputSourceRef, renderedStatus, pc, stream, nodes, sess,
                 listeners, pending, clock, severed, declared>>

\* a request to /api/moderation is served
ModerationRequest(env, requestBody, upstream) ==
  /\ last' = Op("moderation_post", NoRef,
                [env |-> env, body |-> requestBody, upstream |-> upstream,
                 served |-> ModerationPOST(env, requestBody, upstream)])
  /\ UNCHANGED <<status, error, history, eligibilitySummary, guardrailState,
                 moderationLog, sessionRef, listenerCleanupRef, mediaStreamRef,
                 inputSourceRef, renderedStatus, pc, stream, nodes, sess,
                 listeners, pending, clock, severed, declared>>

\* requests sent and not yet settled, and records reported
Checks == clock + Len(pending)

\* which of the things a teardown clears are there to clear
Held ==
  {n \in {"history", "guardrailState", "moderationLog", "eligibilitySummary",
          "session", "mediaStream", "error"} :
     \/ n = "history" /\ history # <<>>
     \/ n = "guardrailState" /\ guardrailState # JNull
     \/ n = "moderationLog" /\ moderationLog # <<>>
     \/ n = "eligibilitySummary" /\ eligibilitySummary # JNull
     \/ n = "session" /\ sessionRef # NoRef
     \/ n = "mediaStream" /\ mediaStreamRef # NoRef
     \/ n = "error" /\ error # JNull}

\* disconnect()
Disconnect ==
  /\ Commit(disconnect(Cur))
  /\ last' = Op("disconnect", NoRef,
                [before |-> [status |-> status,
                             held |-> Held],
                 released |-> ReleaseSteps(Cur)])
  /\ renderedStatus' = "idle"
  /\ UNCHANGED <<pc, pending, clock, severed, declared>>


\* ------------------------------------------------------------- specifications
\* The supervisor: overlapping connect attempts, teardown, and events and
\* tool calls from every live session, each input kind once.
LowRiskPayload ==
  RawPayload(JStr("TRIAL_INFO"), JStr("REFUSE"), JArr(<<JStr("NAME")>>),
             JArr(<<JStr("OUT_OF_SCOPE")>>), JText(<<"a">>))

SupervisorPayloads ==
  {LowRiskPayload,
   RawPayload(JStr("AGE_GATE"), JStr("GOODBYE"), JUndefined,
              JArr(<<JStr("MINOR_USER")>>), JUndefined),
   [BasePayload EXCEPT !.state = JStr("PAUSED")]}

Next ==
  \/ Render
  \/ \E a \in Attempts : Connect(a)
  \/ ConnectIgnored
  \/ \E a \in Attempts :
       \E r \in {Settled, Rejected(ErrorOf(<<"Failed to fetch">>))} :
         FetchDone(a, r)
  \/ \E a \in Attempts :
       \E r \in {Settled, Rejected(ErrorOf(<<"Permission denied">>))} :
         MediaDone(a, r)
  \/ \E a \in Attempts : TransportOpen(a)
  \/ \E a \in Attempts :
       \E r \in {Settled, Rejected(NotAnError)} : SessionConnectDone(a, r)
  \/ \E a \in Attempts, items \in HistorySample : HistoryUpdated(a, items)
  \/ \E a \in Attempts : ErrorEvent(a, [kind |-> "other"])
  \/ \E a \in Attempts : AudioStart(a)
  \/ \E a \in Attempts, raw \in SupervisorPayloads : GuardrailStateCall(a, raw)
  \/ Disconnect

Spec == Init /\ [][Next]_vars

\* The guardrail tool: one session.  Every sampled payload is delivered
\* as the first declaration of a session and as the one after LowRiskPayload.
ToolPayloads ==
  IF guardrailState = JNull
  THEN {LowRiskPayload} \cup ValidPayloads \cup InvalidPayloads
  ELSE IF guardrailState = NormalizedPayload(LowRiskPayload)
  THEN ValidPayloads \cup InvalidPayloads
  ELSE {}

ToolNext ==
  \/ Connect(1)
  \/ FetchDone(1, Settled)
  \/ MediaDone(1, Settled)
  \/ TransportOpen(1)
  \/ SessionConnectDone(1, Settled)
  \/ AudioStart(1)
  \/ \E raw \in ToolPayloads : GuardrailStateCall(1, raw)
  \/ Disconnect

ToolSpec == Init /\ [][ToolNext]_vars

\* a second low-risk declaration: two tags outside the high-risk set, no
\* notes and no PII list
AdvicePayload ==
  RawPayload(JStr("SCREENING"), JStr("ANSWER"), JUndefined,
             JArr(<<JStr("ADVICE_MEDICAL"), JStr("COLLECT_EXCESS_PII")>>),
             JUndefined)

SessionPayloads == SupervisorPayloads \cup {AdvicePayload}

\* One session with everything it can hold: every way each awaited step
\* settles, every event, and the tools that write to the component.
SessionNext ==
  \/ Render
  \/ Connect(1)
  \/ ConnectIgnored
  \/ \E r \in FetchOutcomes : FetchDone(1, r)
  \/ \E r \in MediaOutcomes : MediaDone(1, r)
  \/ TransportOpen(1)
  \/ \E r \in SessionConnectOutcomes : SessionConnectDone(1, r)
  \/ \E items \in HistorySample : HistoryUpdated(1, items)
  \/ \E e \in ErrorEvents : ErrorEvent(1, e)
  \/ AudioStart(1)
  \/ \E raw \in SessionPayloads : GuardrailStateCall(1, raw)
  \/ \E args \in EligibilitySample : RecordEligibilityCall(1, args)
  \/ Checks < MaxChecks /\ ModerationCheckCall(1, 1, "assistant_plan")
  \/ \E i \in 1..MaxChecks : ModerationDone(i, [kind |-> "rejects"])
  \/ Disconnect

SessionSpec == Init /\ [][SessionNext]_vars

\* Overlapping connect attempts alone: clicks on Connect and Disconnect
\* while earlier attempts are still in flight, and the ways each awaited
\* step of an attempt settles.
ConnectNext ==
  \/ Render
  \/ \E a \in Attempts : Connect(a)
  \/ ConnectIgnored
  \/ \E a \in Attempts :
       \E r \in {Settled, Rejected(ErrorOf(<<"Failed to fetch">>))} :
         FetchDone(a, r)
  \/ \E a \in Attempts :
       \E r \in {Settled, Rejected(ErrorOf(<<"Permission denied">>))} :
         MediaDone(a, r)
  \/ \E a \in Attempts : TransportOpen(a)
  \/ \E a \in Attempts :
       \E r \in {Settled, Rejected(NotAnError)} : SessionConnectDone(a, r)
  \/ \E a \in Attempts : ErrorEvent(a, [kind |-> "other"])
  \/ \E a \in Attempts : AudioStart(a)
  \/ Disconnect

ConnectSpec == Init /\ [][ConnectNext]_vars

\* The moderation tool: one session, and every way a request of the first
\* MaxChecks checks can be made and can settle, teardowns in between.
ModerationNext ==
  \/ Connect(1)
  \/ FetchDone(1, Settled)
  \/ MediaDone(1, Settled)
  \/ TransportOpen(1)
  \/ SessionConnectDone(1, Settled)
  \/ Checks < MaxChecks
       /\ \E len \in TextLengths, phase \in ModerationPhases :
            ModerationCheckCall(1, len, phase)
  \/ \E i \in 1..MaxChecks, o \in ModerationOutcomes : ModerationDone(i, o)
  \/ Disconnect

ModerationSpec == Init /\ [][ModerationNext]_vars

\* The moderation log over a long session: up to MaxLogged checks, at most
\* MaxPending of them in flight and settling in any order, teardowns in
\* between.
LogNext ==
  \/ Connect(1)
  \/ FetchDone(1, Settled)
  \/ MediaDone(1, Settled)
  \/ TransportOpen(1)
  \/ SessionConnectDone(1, Settled)
  \/ Checks < MaxLogged /\ Len(pending) < MaxPending
       /\ ModerationCheckCall(1, 1, "user_input")
  \/ \E i \in 1..MaxPending :
       ModerationDone(i, Replied(TRUE, Classified(<<>>)))
  \/ Disconnect

LogSpec == Init /\ [][LogNext]_vars

\* a classifier reply with the first entry flagged, one with it clear
FlaggedReply ==
  Replied(TRUE, Classified(<<JObj([flagged |-> JBool(TRUE),
                                   categories |->
                                     JObj([violence |-> JBool(TRUE)])])>>))

ClearReply ==
  Replied(TRUE, Classified(<<JObj([flagged |-> JBool(FALSE),
                                   categories |->
                                     JObj([violence |-> JBool(FALSE)])])>>))

\* The two event streams of one session side by side: guardrail
\* declarations, moderation checks ending in an error, a clear verdict or a
\* flagged one, and the eligibility record.
StreamsNext ==
  \/ Render
  \/ Connect(1)
  \/ FetchDone(1, Settled)
  \/ MediaDone(1, Settled)
  \/ TransportOpen(1)
  \/ SessionConnectDone(1, Settled)
  \/ \E raw \in SessionPayloads : GuardrailStateCall(1, raw)
  \/ RecordEligibilityCall(1, [eligibility |-> "review",
                               reasons |-> << <<"a">> >>])
  \/ Checks < MaxChecks /\ ModerationCheckCall(1, 1, "user_input")
  \/ \E i \in 1..MaxChecks :
       \E o \in {[kind |-> "rejects"],
                 Replied(FALSE, JObj([error |-> JStr("missing_text")])),
                 ClearReply, FlaggedReply} :
         ModerationDone(i, o)
  \/ Disconnect

StreamsSpec == Init /\ [][StreamsNext]_vars

\* The eligibility record: one session, every sampled outcome, recorded
\* any number of times.
EligibilityNext ==
  \/ Connect(1)
  \/ FetchDone(1, Settled)
  \/ MediaDone(1, Settled)
  \/ TransportOpen(1)
  \/ SessionConnectDone(1, Settled)
  \/ \E args \in EligibilityArgs : RecordEligibilityCall(1, args)
  \/ Disconnect

EligibilitySpec == Init /\ [][EligibilityNext]_vars

\* Everything that may or may not end a session: the ways a connect
\* attempt fails, a transport error, and a call of each of the four tools.
EscalationNext ==
  \/ Render
  \/ Connect(1)
  \/ \E r \in {Settled, Rejected(ErrorOf(<<"Failed to fetch">>))} :
       FetchDone(1, r)
  \/ \E r \in {Settled, Rejected(ErrorOf(<<"Permission denied">>))} :
       MediaDone(1, r)
  \/ TransportOpen(1)
  \/ \E r \in {Settled, Rejected(NotAnError)} : SessionConnectDone(1, r)
  \/ ErrorEvent(1, [kind |-> "other"])
  \/ AudioStart(1)
  \/ \E raw \in SessionPayloads : GuardrailStateCall(1, raw)
  \/ RecordEligibilityCall(1, [eligibility |-> "ineligible",
                               reasons |-> << <<"a">> >>])
  \/ \E q \in {"Where?", "asdf"} : LookupInfoCall(1, q)
  \/ Checks < MaxChecks /\ ModerationCheckCall(1, 1, "assistant_plan")
  \/ \E i \in 1..MaxChecks :
       \E o \in {[kind |-> "rejects"], FlaggedReply} : ModerationDone(i, o)
  \/ Disconnect

EscalationSpec == Init /\ [][EscalationNext]_vars

\* The study lookup: one session and every sampled question.
LookupNext ==
  \/ Connect(1)
  \/ FetchDone(1, Settled)
  \/ MediaDone(1, Settled)
  \/ TransportOpen(1)
  \/ SessionConnectDone(1, Settled)
  \/ \E q \in Questions : LookupInfoCall(1, q)
  \/ Disconnect

LookupSpec == Init /\ [][LookupNext]_vars

\* The two server routes: every sampled environment, request and upstream
\* reply.
RouteNext ==
  \/ \E env \in RouteEnvs, up \in RealtimeUpstreams :
       RealtimeSessionRequest(env, up)
  \/ \E env \in RouteEnvs, body \in ModerationRequestBodies,
         up \in ModerationUpstreams :
       ModerationRequest(env, body, up)

RouteSpec == Init /\ [][RouteNext]_vars

\* Moderation checks in flight across teardowns: overlapping attempts, a
\* high-risk declaration, disconnect, and checks that settle at any time.
InFlightNext ==
  \/ Render
  \/ \E a \in Attempts : Connect(a)
  \/ \E a \in Attempts : FetchDone(a, Settled)
  \/ \E a \in Attempts : MediaDone(a, Settled)
  \/ \E a \in Attempts : TransportOpen(a)
  \/ \E a \in Attempts : SessionConnectDone(a, Settled)
  \/ \E a \in Attempts :
       GuardrailStateCall(a, RawPayload(JStr("AGE_GATE"), JStr("GOODBYE"),
                                        JUndefined,
                                        JArr(<<JStr("MINOR_USER")>>),
                                        JUndefined))
  \/ Checks < MaxChecks
       /\ \E a \in Attempts : ModerationCheckCall(a, 1, "user_input")
  \/ \E i \in 1..MaxChecks :
       \E o \in {[kind |-> "rejects"], ClearReply} : ModerationDone(i, o)
  \/ Disconnect

InFlightSpec == Init /\ [][InFlightNext]_vars

\* An awaited operation of attempt a settles: the credential request,
\* resume() and getUserMedia(), or session.connect() resolves or rejects.
\* Weak fairness on it says that no await stays pending for ever.
AwaitedSettles(a) ==
  \/ \E r \in {Settled, Rejected(ErrorOf(<<"Failed to fetch">>))} :
       FetchDone(a, r)
  \/ \E r \in {Settled, Rejected(ErrorOf(<<"Permission denied">>))} :
       MediaDone(a, r)
  \/ \E r \in {Settled, Rejected(NotAnError)} : SessionConnectDone(a, r)

\* the attempts whose connect() is suspended at one of its awaits
Awaiting ==
  {a \in Attempts : pc[a] \in {"fetch", "media", "session.connect"}}

\* Connect attempts that overlap in pairs: the user abandons an attempt in
\* progress with Disconnect and starts the next one while at most one
\* earlier attempt is still suspended.
ConnectLiveNext ==
  \/ Render
  \/ (\A b, c \in Awaiting : b = c) /\ \E a \in Attempts : Connect(a)
  \/ \E a \in Attempts : AwaitedSettles(a)
  \/ \E a \in Attempts : TransportOpen(a)
  \/ status = "connecting" /\ Disconnect

ConnectLiveSpec ==
  /\ Init
  /\ [][ConnectLiveNext]_vars
  /\ \A a \in Attempts : WF_vars(AwaitedSettles(a))

\* SessionControls renders the error banner when error is truthy: neither
\* null nor the empty string
ErrorBannerShown(e) == e # JNull /\ e.v # <<>>

\* ------------------------------------------------------------- claims
Called(cb) == cb \in {last.info.calls[i] : i \in DOMAIN last.info.calls}

GuardrailReturned == last.op = "guardrail_state"

\* a high-risk declaration was validated and handed to onGuardrailViolation
ViolationHandled == GuardrailReturned /\ Called("onGuardrailViolation")

\* the strings of an array property, [] when the property is missing
Strings(x) == IF x.t = "array" THEN [i \in DOMAIN x.v |-> x.v[i].v] ELSE <<>>

SampledValid ==
  ValidPayloads \cup {r \in SessionPayloads : r.state.v \in GuardrailStates}

\* C1: a valid high-risk guardrail_state payload delivered while the status
\* is connected leaves, when the call returns, status error, the media
\* stream reference null with no track of a stream it held still live, and
\* the session handle null with the delivering session closed.
C1_HighRiskWhileConnectedTearsDown ==
  (ViolationHandled /\ last.info.before.status = "connected") =>
    /\ status = "error"
    /\ mediaStreamRef = NoRef
    /\ sessionRef = NoRef
    /\ sess[last.a] = "closed"

\* C2: a session that delivered a validated high-risk declaration is closed
\* when the handling finishes and is never the supervisor's active session
\* afterwards.
C2_SeveredSessionStaysClosed ==
  \A a \in severed : sess[a] = "closed" /\ sessionRef # a

\* C3 as stated: after a guardrail-triggered termination the error message
\* is risk_notes itself when present, else "Guardrail triggered: " followed
\* by the tags joined with ", ".
C3_MessageIsRiskNotesVerbatim ==
  ViolationHandled =>
    error = IF last.info.raw.risk_notes.t = "string"
            THEN JText(last.info.raw.risk_notes.v)
            ELSE JText(<<"Guardrail triggered: ">>
                       \o Join(Strings(last.info.raw.violations), ", "))

\* C3 amended: the message is risk_notes with leading and trailing white
\* space removed when risk_notes is present (also when nothing is left),
\* else "Guardrail triggered: " followed by the tags joined with ", ".
C3_MessageIsTrimmedRiskNotes ==
  ViolationHandled =>
    error = IF last.info.raw.risk_notes.t = "string"
            THEN JText(Trim(last.info.raw.risk_notes.v))
            ELSE JText(<<"Guardrail triggered: ">>
                       \o Join(Strings(last.info.raw.violations), ", "))

C3_Witness ==
  /\ ViolationHandled
  /\ last.info.raw.risk_notes = JText(<<" ", "a", " ">>)
  /\ last.info.raw.violations = JArr(<<JStr("OUT_OF_SCOPE"), JStr("EMERGENCY_SIGNAL")>>)
  /\ error = JText(<<"a">>)
  /\ status = "error"

\* C4: for a valid payload the violation callback runs if and only if the
\* violations hold EMERGENCY_SIGNAL, MINOR_USER or NO_CONSENT.
C4_ViolationCallbackIffHighRisk ==
  (GuardrailReturned /\ last.info.raw \in SampledValid) =>
    (Called("onGuardrailViolation") <=>
       \E i \in DOMAIN Strings(last.info.raw.violations) :
         Strings(last.info.raw.violations)[i]
           \in {"EMERGENCY_SIGNAL", "MINOR_USER", "NO_CONSENT"})

C4_Witness ==
  /\ ViolationHandled
  /\ last.info.raw.violations = JArr(<<JStr("NO_CONSENT")>>)
  /\ last.info.before.status = "connected"
  /\ status = "error"

\* C5: a payload that fails the schema is answered {acknowledged: false,
\* error: "invalid_guardrail_state_payload"}, reaches neither callback, and
\* leaves the tracked state, the status and the session handle as they were.
C5_InvalidPayloadDeclined ==
  (GuardrailReturned /\ last.info.raw \in InvalidPayloads) =>
    /\ last.info.result =
         [acknowledged |-> FALSE, error |-> "invalid_guardrail_state_payload"]
    /\ last.info.calls = <<>>
    /\ guardrailState = last.info.before.guardrailState
    /\ status = last.info.before.status
    /\ sessionRef = last.info.before.sessionRef

C5_Witness ==
  /\ GuardrailReturned
  /\ last.info.raw = [BasePayload EXCEPT !.risk_notes = JNumber(7)]
  /\ last.info.result.acknowledged = FALSE
  /\ guardrailState = NormalizedPayload(LowRiskPayload)
  /\ status = "connected"
  /\ sessionRef = 1

\* C6: a valid payload is answered {acknowledged: true} and the tracked
\* state is then exactly the payload with pii_requested and violations as
\* [] where omitted; nothing of the state tracked before is kept.
C6_TrackedStateIsNormalizedPayload ==
  (GuardrailReturned /\ last.info.raw \in SampledValid) =>
    /\ last.info.result = [acknowledged |-> TRUE]
    /\ guardrailState =
         [state |-> last.info.raw.state.v,
          action |-> last.info.raw.action.v,
          pii_requested |-> Strings(last.info.raw.pii_requested),
          violations |-> Strings(last.info.raw.violations),
          risk_notes |-> last.info.raw.risk_notes]

C6_Witness ==
  /\ GuardrailReturned
  /\ last.info.before.guardrailState = NormalizedPayload(LowRiskPayload)
  /\ last.info.raw.pii_requested = JUndefined
  /\ last.info.raw.violations = JUndefined
  /\ last.info.raw.risk_notes = JUndefined
  /\ guardrailState.pii_requested = <<>>
  /\ guardrailState.violations = <<>>
  /\ guardrailState.risk_notes = JUndefined

\* C7: an error event of the transport while the status is connected
\* leaves status error and the session torn down: its listeners removed,
\* its analysis nodes disconnected, its tracks stopped, the media stream
\* reference cleared, the session closed and the handle null.
C7_TransportErrorTearsDown ==
  (last.op = "error_event" /\ last.info.before.status = "connected") =>
    /\ status = "error"
    /\ \A ev \in SessionEvents : ~Listening(last.a, ev)
    /\ nodes[last.a] = "disconnected"
    /\ stream[last.a] = "stopped"
    /\ mediaStreamRef = NoRef
    /\ sess[last.a] = "closed"
    /\ sessionRef = NoRef

\* C8: however a connect() attempt fails while connecting, the status is
\* error with a message, and what the attempt acquired is released: its
\* tracks stopped, its listeners removed, its session closed.
ConnectFailed ==
  \/ last.op \in {"fetch_done", "media_done", "session.connect_done"}
       /\ last.info.failed
  \/ last.op = "error_event" /\ last.info.before.status = "connecting"

C8_FailedConnectReleasesEverything ==
  ConnectFailed =>
    /\ status = "error"
    /\ error # JNull
    /\ stream[last.a] # "live"
    /\ \A ev \in SessionEvents : ~Listening(last.a, ev)
    /\ sess[last.a] \in {"none", "closed"}

\* C9: disconnect() in any status leaves status idle, no error message,
\* empty history, no guardrail state, empty moderation log, no eligibility
\* summary, and the session handle and media stream reference null.
C9_DisconnectClearsEverything ==
  last.op = "disconnect" =>
    /\ status = "idle"
    /\ error = JNull
    /\ history = <<>>
    /\ guardrailState = JNull
    /\ moderationLog = <<>>
    /\ eligibilitySummary = JNull
    /\ sessionRef = NoRef
    /\ mediaStreamRef = NoRef

C9_Witness ==
  /\ last.op = "disconnect"
  /\ last.info.before.status = "connected"
  /\ last.info.before.held =
       {"history", "guardrailState", "moderationLog", "eligibilitySummary",
        "session", "mediaStream", "error"}
  /\ status = "idle"
  /\ moderationLog = <<>>

\* C10: the status leaves error or idle for connecting or connected only
\* in a step that is a connect() call.
C10_NoAutomaticReconnect ==
  [][(status \in {"idle", "error"} /\ status' \in {"connecting", "connected"})
       => last'.op = "connect"]_vars

\* an attempt is in progress: started and none of its awaits has ended it
InProgress(a) == pc[a] \in {"fetch", "media", "session.connect"}

\* C11: a connect() invocation while the status is connecting changes
\* nothing: no teardown, no new attempt (so no credential request, no
\* media stream, no session), however many such invocations there are.
C11_ConnectWhileConnectingIgnored ==
  [][(status = "connecting" /\ last' # last
        /\ last'.op \in {"connect", "connect_ignored"})
       => /\ last'.op = "connect_ignored"
          /\ UNCHANGED <<status, error, history, eligibilitySummary,
                         guardrailState, moderationLog, sessionRef,
                         listenerCleanupRef, mediaStreamRef, inputSourceRef,
                         pc, stream, nodes, sess, listeners>>]_vars

C11_Witness ==
  /\ last.op = "connect_ignored"
  /\ status = "connecting"
  /\ pc[1] = "session.connect"
  /\ mediaStreamRef = 1
  /\ stream[1] = "live"
  /\ Unused # {}

\* a step in which an await of attempt a settles
Resolves(a) ==
  /\ last' # last
  /\ last'.a = a
  /\ last'.op \in {"fetch_done", "media_done", "session.connect_done"}

\* C12: when disconnect() or a guardrail-triggered teardown has run while
\* an attempt was awaiting one of its steps, the resolution of that attempt
\* changes neither the status, the media stream reference nor the session
\* handle, and registers no listener.  (The status is idle, or a session has
\* been severed, with an attempt in progress only after such a teardown.)
C12_AbandonedAttemptResolvesAsNoOp ==
  [][\A a \in Attempts :
       (InProgress(a) /\ (status = "idle" \/ a \in severed) /\ Resolves(a))
         => UNCHANGED <<status, mediaStreamRef, sessionRef, listeners>>]_vars

\* C14: every media stream obtained by an attempt and not yet stopped is
\* the one the media stream reference holds.
C14_LiveStreamIsReferenced ==
  \A a \in Attempts : stream[a] = "live" => mediaStreamRef = a

\* the place of a release step in the order the claim fixes
StepRank(step) ==
  CASE step = "disconnect nodes" -> 1
    [] step = "stop tracks" -> 2
    [] step = "pause playback" -> 3
    [] step = "close session" -> 4

\* a teardown has just run: disconnect, a failed connect step, a violation
TornDown ==
  \/ last.op = "disconnect"
  \/ last.op \in {"fetch_done", "media_done", "session.connect_done"}
       /\ last.info.failed
  \/ ViolationHandled

\* C13: every teardown releases in the order nodes, tracks, playback
\* element, session, and no session object of a torn-down attempt is left
\* unclosed: that of the failing or severed attempt, and on disconnect that
\* of every attempt.
C13_TeardownOrderAndClose ==
  TornDown =>
    /\ \A i, j \in DOMAIN last.info.released :
         i < j => StepRank(last.info.released[i].step)
                    < StepRank(last.info.released[j].step)
    /\ \A a \in Attempts :
         (last.op = "disconnect" \/ a = last.a) => sess[a] \in {"none", "closed"}

ModerationReturned == last.op = "moderation_done"

\* the request could not be completed: fetch rejected or the body of the
\* response could not be read
Uncompleted == last.info.outcome.kind = "rejects"
                 \/ last.info.outcome.body = Unparsable

\* C15: the moderation log never holds more than 10 records; a step that
\* reports a record appends it, evicting the oldest record when there are
\* 10 already, and any other step leaves the log alone or empties it.
C15_LogKeepsLastTenInOrder ==
  [][/\ Len(moderationLog') <= 10
     /\ IF clock' # clock
        THEN LET rec == last'.info.reports[1] IN
             moderationLog' = IF Len(moderationLog) < 10
                              THEN Append(moderationLog, rec)
                              ELSE Tail(moderationLog) \o <<rec>>
        ELSE moderationLog' \in {moderationLog, <<>>}]_vars

C15_Witness ==
  /\ ModerationReturned
  /\ Len(moderationLog) = 10
  /\ moderationLog[1].timestamp = 3
  /\ moderationLog[10].timestamp = 12
  /\ pending = <<>>

\* C16: every moderation_check whose request settles, in any of the ways
\* it can, reports exactly one record, the record of that request, and the
\* record is then the newest of the log.
C16_OneRecordPerCheck ==
  ModerationReturned =>
    /\ Len(last.info.reports) = 1
    /\ last.info.reports[1].phase = last.info.req.phase
    /\ last.info.reports[1].text = last.info.req.text
    /\ moderationLog # <<>>
    /\ moderationLog[Len(moderationLog)] = last.info.reports[1]

C16_Witness ==
  /\ ModerationReturned
  /\ last.info.outcome = Replied(TRUE, Unparsable)
  /\ last.info.req = [phase |-> "user_input", text |-> MODERATION_MAX_CHARS,
                      by |-> 1]
  /\ Len(moderationLog) = 1
  /\ moderationLog[1].error = JStr("moderation_unreachable")

\* C17: a failed moderation request returns moderated: false with an error
\* code, and the record carries the same code and no flagged field; the
\* code is "moderation_unreachable" when the request could not be
\* completed, and for a non-success response the code of its body, or
\* "moderation_failed" when the body has none.
C17_FailureCodes ==
  (ModerationReturned /\ (Uncompleted \/ ~last.info.outcome.ok)) =>
    LET body == last.info.outcome.body
        code == IF Uncompleted THEN JStr("moderation_unreachable")
                ELSE IF body.t = "object" /\ "error" \in DOMAIN body.v
                          /\ body.v.error.t = "string"
                     THEN body.v.error
                     ELSE JStr("moderation_failed")
    IN /\ last.info.result = [moderated |-> FALSE, error |-> code]
       /\ last.info.reports[1].error = code
       /\ last.info.reports[1].flagged = JUndefined

C17_Witness ==
  /\ ModerationReturned
  /\ last.info.outcome = Replied(FALSE, JObj([error |-> JStr("missing_text")]))
  /\ last.info.result = [moderated |-> FALSE, error |-> JStr("missing_text")]
  /\ moderationLog[1].error = JStr("missing_text")

\* C18: a successful moderation request returns {moderated: true, flagged,
\* categories} with flagged and categories of the first entry of the
\* results, false and undefined where the results or the fields are not
\* there, and the record carries the same flagged and categories.
C18_SuccessVerdict ==
  (ModerationReturned /\ ~Uncompleted /\ last.info.outcome.ok) =>
    LET body == last.info.outcome.body
        has == /\ body.t = "object" /\ "result" \in DOMAIN body.v
               /\ body.v.result.t = "object"
               /\ "results" \in DOMAIN body.v.result.v
               /\ body.v.result.v.results.t = "array"
               /\ body.v.result.v.results.v # <<>>
               /\ body.v.result.v.results.v[1].t = "object"
        first == body.v.result.v.results.v[1].v
        flagged == IF has /\ "flagged" \in DOMAIN first
                   THEN first.flagged ELSE JBool(FALSE)
        categories == IF has /\ "categories" \in DOMAIN first
                           /\ first.categories.t = "object"
                      THEN first.categories ELSE JUndefined
    IN /\ last.info.result = [moderated |-> TRUE, flagged |-> flagged,
                              categories |-> categories]
       /\ last.info.reports[1].flagged = flagged
       /\ last.info.reports[1].categories = categories

C18_Witness ==
  /\ ModerationReturned
  /\ last.info.result = [moderated |-> TRUE, flagged |-> JBool(TRUE),
                         categories |-> JObj([violence |-> JBool(TRUE)])]
  /\ moderationLog[1].flagged = JBool(TRUE)
  /\ moderationLog[1].categories = JObj([violence |-> JBool(TRUE)])

\* C19: every record of the log is of exactly one verdict form: error set
\* with flagged and categories absent, or flagged a boolean with error
\* absent.
C19_RecordVerdictForms ==
  \A i \in DOMAIN moderationLog :
    LET rec == moderationLog[i] IN
    \/ /\ rec.error.t \notin {"undefined", "null"}
       /\ rec.flagged = JUndefined
       /\ rec.categories = JUndefined
    \/ /\ rec.flagged.t = "boolean"
       /\ rec.error = JUndefined

C19_Witness ==
  /\ moderationLog # <<>>
  /\ moderationLog[1].error = JStr("moderation_failed")
  /\ moderationLog[1].flagged = JUndefined
  /\ last.info.outcome = Replied(FALSE, JNull)

\* C20: a valid guardrail_state payload with no EMERGENCY_SIGNAL,
\* MINOR_USER or NO_CONSENT among its violations replaces the tracked
\* guardrail state and leaves the status, the error message, the session
\* handle, the media stream, the history, the moderation log and the
\* eligibility summary as they were.
C20_LowRiskUpdateTouchesOnlyTrackedState ==
  [][(/\ last'.op = "guardrail_state"
      /\ last' # last
      /\ last'.info.raw \in SampledValid
      /\ \A i \in DOMAIN Strings(last'.info.raw.violations) :
           Strings(last'.info.raw.violations)[i]
             \notin {"EMERGENCY_SIGNAL", "MINOR_USER", "NO_CONSENT"})
       => /\ guardrailState' =
               [state |-> last'.info.raw.state.v,
                action |-> last'.info.raw.action.v,
                pii_requested |-> Strings(last'.info.raw.pii_requested),
                violations |-> Strings(last'.info.raw.violations),
                risk_notes |-> last'.info.raw.risk_notes]
          /\ UNCHANGED <<status, error, sessionRef, mediaStreamRef, stream,
                         history, moderationLog, eligibilitySummary>>]_vars

C20_Witness ==
  /\ GuardrailReturned
  /\ last.info.raw = AdvicePayload
  /\ last.info.before.guardrailState = NormalizedPayload(LowRiskPayload)
  /\ guardrailState.violations = <<"ADVICE_MEDICAL", "COLLECT_EXCESS_PII">>
  /\ status = "connected"
  /\ sessionRef = 1
  /\ stream[1] = "live"
  /\ history # <<>>
  /\ moderationLog # <<>>
  /\ eligibilitySummary # JNull

\* the step just taken is a connect failure, a transport-reported error, or
\* a guardrail_state call whose payload was valid and carried a high-risk tag
HighSeverityDeclared ==
  /\ last.op = "guardrail_state"
  /\ last.info.raw \in SampledValid
  /\ \E i \in DOMAIN Strings(last.info.raw.violations) :
       Strings(last.info.raw.violations)[i]
         \in {"EMERGENCY_SIGNAL", "MINOR_USER", "NO_CONSENT"}

TransportFailed ==
  \/ last.op \in {"fetch_done", "media_done", "session.connect_done"}
       /\ last.info.failed
  \/ last.op = "error_event"

ToolReturned ==
  last.op \in {"guardrail_state", "record_eligibility", "lookup_info",
               "moderation_check", "moderation_done"}

\* C21: the status becomes error only in a step that is a connect failure,
\* a transport-reported error or a validated high-severity guardrail_state
\* call; every other tool call (record_eligibility, lookup_info,
\* moderation_check and its completion, an invalid or non-high-severity
\* guardrail_state) leaves the status, the session handle, the session, the
\* listeners, the media stream and the input nodes as they were.
C21_OnlyTransportOrHighSeverityEscalates ==
  [][/\ (status' = "error" /\ status # "error")
          => (TransportFailed' \/ HighSeverityDeclared')
     /\ (ToolReturned' /\ ~HighSeverityDeclared')
          => UNCHANGED <<status, sessionRef, listenerCleanupRef,
                         mediaStreamRef, inputSourceRef, stream, nodes, sess,
                         listeners>>]_vars

C21_Witness ==
  /\ GuardrailReturned
  /\ last.info.raw = [BasePayload EXCEPT !.state = JStr("PAUSED")]
  /\ last.info.result.acknowledged = FALSE
  /\ last.info.before.status = "connected"
  /\ status = "connected"
  /\ sessionRef = 1
  /\ sess[1] = "live"
  /\ stream[1] = "live"

\* C22: a moderation_check call and its completion, whether it ends in an
\* error, a clear verdict or flagged: true, leave the status, the error
\* message, the session handle, the tracked guardrail state and the
\* eligibility summary as they were; a guardrail_state call that does not
\* trigger teardown leaves the moderation log as it was.
C22_ModerationAndGuardrailIndependent ==
  [][/\ last'.op \in {"moderation_check", "moderation_done"}
          => UNCHANGED <<status, error, sessionRef, guardrailState,
                         eligibilitySummary>>
     /\ (last'.op = "guardrail_state" /\ ~HighSeverityDeclared')
          => moderationLog' = moderationLog]_vars

\* a flagged verdict was logged in a connected session that tracks a
\* guardrail state and holds an eligibility summary
C22_Witness ==
  /\ ModerationReturned
  /\ last.info.outcome = FlaggedReply
  /\ Len(moderationLog) > 0
  /\ moderationLog[Len(moderationLog)].flagged = JBool(TRUE)
  /\ status = "connected"
  /\ sessionRef = 1
  /\ guardrailState # JNull
  /\ eligibilitySummary # JNull

\* the reasons each trimmed, the empty results removed, order kept
NonEmpty(r) == r # <<>>

TrimmedReasons(reasons) ==
  SelectSeq([i \in DOMAIN reasons |-> Trim(reasons[i])], NonEmpty)

\* C23: when record_eligibility has returned, whatever was recorded before,
\* the stored summary has the eligibility of that call and as reasons the
\* supplied reasons trimmed with the empty results removed in the original
\* order, or ["No reasons provided."] when nothing remains, and the call
\* returned {recorded: true}; a stored reasons list is never empty and holds
\* no empty and no padded string.
C23_LastEligibilityWins ==
  /\ last.op = "record_eligibility"
       => /\ eligibilitySummary # JNull
          /\ eligibilitySummary.eligibility = last.info.args.eligibility
          /\ eligibilitySummary.reasons =
               (IF TrimmedReasons(last.info.args.reasons) = <<>>
                THEN << <<"No reasons provided.">> >>
                ELSE TrimmedReasons(last.info.args.reasons))
          /\ last.info.result = [recorded |-> TRUE]
  /\ eligibilitySummary # JNull
       => /\ Len(eligibilitySummary.reasons) > 0
          /\ \A i \in DOMAIN eligibilitySummary.reasons :
               LET r == eligibilitySummary.reasons[i] IN
               /\ r # <<>>
               /\ r[1] # " "
               /\ r[Len(r)] # " "

\* a later call replaced a summary with another outcome, and its reasons
\* lost a blank entry and the padding of another
C23_Witness ==
  /\ last.op = "record_eligibility"
  /\ last.info.before.eligibility = JStr("eligible")
  /\ last.info.args = [eligibility |-> "review",
                       reasons |-> << <<" ">>, <<" ", "a", " ">> >>]
  /\ eligibilitySummary = [eligibility |-> "review", reasons |-> << <<"a">> >>]

LookupReturned == last.op = "lookup_info"

\* the position of a section in the fixed order, by its title
SectionIndex(title) ==
  CHOOSE i \in DOMAIN StudySections : StudySections[i].title = title

\* the sections with a keyword that occurs in the lower-cased question
KeywordSections(question) ==
  {i \in DOMAIN StudySections :
     \E k \in DOMAIN StudySections[i].keywords :
       Includes(ToLowerCase(question), StudySections[i].keywords[k])}

\* C24: lookup_info returns a non-empty section list: the sections with at
\* least one keyword that is a substring of the lower-cased question, each
\* once and in the fixed section order, or the two default sections overview
\* and status when no section has such a keyword.
C24_LookupReturnsMatchedOrDefault ==
  LookupReturned =>
    LET sections == last.info.result.response.sections
        wanted == IF KeywordSections(last.info.question) = {}
                  THEN {i \in DOMAIN StudySections :
                          StudySections[i].name \in {"overview", "status"}}
                  ELSE KeywordSections(last.info.question)
    IN /\ Len(sections) > 0
       /\ {sections[j].title : j \in DOMAIN sections}
            = {StudySections[i].title : i \in wanted}
       /\ \A j, k \in DOMAIN sections :
            j < k => SectionIndex(sections[j].title)
                       < SectionIndex(sections[k].title)
       /\ \A j \in DOMAIN sections :
            sections[j].content
              = StudySections[SectionIndex(sections[j].title)].content

\* a question with no keyword in it got the two default sections
C24_Witness ==
  /\ LookupReturned
  /\ last.info.question = "asdf"
  /\ KeywordSections("asdf") = {}
  /\ last.info.result.response.matched_sections
       = <<"Overview", "Status & Timeline">>

\* C25: the set of sections lookup_info returns for a question is the set
\* matchStudySections returns for it over STUDY_INFO.
C25_LookupAnswersFromStudyInfo ==
  LookupReturned =>
    LET sections == last.info.result.response.sections
        snapshot == matchStudySections(last.info.question)
    IN {sections[j].title : j \in DOMAIN sections}
         = {snapshot[i].title : i \in DOMAIN snapshot}

CredentialServed == last.op = "realtime_session_post"

KeyConfigured ==
  last.info.env.OPENAI_API_KEY \notin {JUndefined, JStr("")}

\* C26: with OPENAI_API_KEY unset or empty the credential route answers
\* 500 with an error that names OPENAI_API_KEY and sends no request to the
\* provider.
C26_MissingKeyRejectedBeforeUpstream ==
  (CredentialServed /\ ~KeyConfigured) =>
    /\ last.info.served.response.kind = "response"
    /\ last.info.served.response.status = 500
    /\ Includes(last.info.served.response.body.v.error.v, "OPENAI_API_KEY")
    /\ last.info.served.requests = <<>>

\* the key is unset and the provider would have issued a secret
C26_Witness ==
  /\ CredentialServed
  /\ last.info.env.OPENAI_API_KEY = JUndefined
  /\ last.info.upstream = Upstream(200, ClientSecretResponse)
  /\ last.info.served.response.status = 500
  /\ last.info.served.requests = <<>>

\* C27: when the credential exchange fails upstream the route's response
\* carries no client secret; for a non-success provider status it has that
\* same status and the body {error, details}, details being the provider's
\* JSON body or {} when the body is not JSON; when the request throws its
\* status is 500.
C27_UpstreamFailurePropagated ==
  (CredentialServed /\ KeyConfigured) =>
    LET up == last.info.upstream
        response == last.info.served.response
    IN /\ (up.kind = "rejects" \/ ~up.ok)
            => /\ response.kind = "response"
               /\ "client_secret" \notin DOMAIN response.body.v
       /\ (up.kind = "response" /\ ~up.ok)
            => /\ response.status = up.status
               /\ DOMAIN response.body.v = {"error", "details"}
               /\ response.body.v.details =
                    (IF up.body = Unparsable THEN JObj(<<>>) ELSE up.body)
       /\ up.kind = "rejects" => response.status = 500

\* C28: when the provider answers a credential request with a success
\* status and a client secret, the route has sent exactly one POST to the
\* provider, authorised with "Bearer <server key>", and answers 200 with
\* client_secret the provider's value, client_secret_id its id and
\* expires_at its expires_at.
C28_SuccessReexportsSecret ==
  (/\ CredentialServed
   /\ last.info.env.OPENAI_API_KEY = JStr("test-key")
   /\ last.info.upstream.kind = "response"
   /\ last.info.upstream.ok
   /\ last.info.upstream.body = ClientSecretResponse) =>
    LET response == last.info.served.response
        requests == last.info.served.requests
    IN /\ Len(requests) = 1
       /\ requests[1].method = "POST"
       /\ requests[1].url = "https://api.openai.com/v1/realtime/client_secrets"
       /\ requests[1].authorization = "Bearer test-key"
       /\ response.kind = "response"
       /\ response.status = 200
       /\ response.body = JObj([client_secret |-> JStr("secret"),
                                client_secret_id |-> JStr("cs_123"),
                                expires_at |-> JNumber(2)])

\* the provider answered 201 and the route answered 200 with the secret
C28_Witness ==
  /\ CredentialServed
  /\ last.info.env.OPENAI_API_KEY = JStr("test-key")
  /\ last.info.upstream = Upstream(201, ClientSecretResponse)
  /\ last.info.served.response.status = 200
  /\ last.info.served.response.body.v.client_secret = JStr("secret")
  /\ Len(last.info.served.requests) = 1

ModerationServed == last.op = "moderation_post"

\* the posted body is JSON
BodyParses == last.info.body # Unparsable

\* the posted body has a text that is a string with a non-blank character
TextGiven ==
  /\ last.info.body.t = "object"
  /\ "text" \in DOMAIN last.info.body.v
  /\ last.info.body.v.text.t = "string"
  /\ \E i \in DOMAIN last.info.body.v.text.v :
       /\ last.info.body.v.text.v[i].c # " "
       /\ last.info.body.v.text.v[i].n > 0

Answered(statusCode, code) ==
  /\ last.info.served.response.kind = "response"
  /\ last.info.served.response.status = statusCode
  /\ last.info.served.response.body.v.error = JStr(code)

\* C29: the moderation route answers 500 missing_openai_api_key when the
\* server key is missing, whatever the body; otherwise 400 invalid_json when
\* the body is not JSON; otherwise 400 missing_text when text is absent, not
\* a string or blank; in these cases nothing is sent to the classifier.
\* Otherwise the classifier is called: a non-success status is passed on
\* with {error: "moderation_failed", details}, a request that throws gives
\* 500 moderation_unreachable.
C29_ModerationRoutePrecedence ==
  ModerationServed =>
    LET up == last.info.upstream
        served == last.info.served
    IN IF ~KeyConfigured
       THEN Answered(500, "missing_openai_api_key") /\ served.requests = <<>>
       ELSE IF ~BodyParses
       THEN Answered(400, "invalid_json") /\ served.requests = <<>>
       ELSE IF ~TextGiven
       THEN Answered(400, "missing_text") /\ served.requests = <<>>
       ELSE /\ Len(served.requests) = 1
            /\ (up.kind = "response" /\ ~up.ok)
                 => /\ Answered(up.status, "moderation_failed")
                    /\ "details" \in DOMAIN served.response.body.v
            /\ up.kind = "rejects" => Answered(500, "moderation_unreachable")

\* the session began an utterance (it emitted audio_start)
UtteranceBegan == last.op = "audio_start"

\* C30: whenever a session begins an assistant utterance, a guardrail_state
\* call of that session was validated earlier in the same turn, that is,
\* since its previous utterance began.
C30_UtterancePrecededByValidatedGuardrail ==
  UtteranceBegan => last.info.declared

\* connect() has been called since the session of attempt a was created
ConnectedAgainSince(a) == \E b \in Attempts : b > a /\ pc[b] # "unused"

\* C31: when a moderation check resolves it adds at most one record to the
\* moderation log and changes nothing else the component holds; and when
\* connect() has been called since the check was started, its record does
\* not enter the moderation log, which by then is that of the new session.
C31_InFlightCheckStaysOutOfNextSession ==
  [][clock' # clock
       => /\ Len(last'.info.reports) <= 1
          /\ moderationLog' \in {moderationLog} \cup
               {LastN(Append(moderationLog, last'.info.reports[i]),
                      MODERATION_LOG_KEEP) : i \in DOMAIN last'.info.reports}
          /\ UNCHANGED <<status, error, history, eligibilitySummary,
                         guardrailState, sessionRef, mediaStreamRef, stream,
                         nodes, sess, listeners>>
          /\ ConnectedAgainSince(last'.info.req.by)
               => moderationLog' = moderationLog]_vars

\* a component that has just been mounted
FreshStore ==
  [status |-> "idle", error |-> JNull, history |-> <<>>,
   eligibilitySummary |-> JNull, guardrailState |-> JNull,
   moderationLog |-> <<>>, sessionRef |-> NoRef, listenerCleanupRef |-> <<>>,
   mediaStreamRef |-> NoRef, inputSourceRef |-> NoRef,
   stream |-> [a \in Attempts |-> "none"],
   nodes |-> [a \in Attempts |-> "none"],
   sess |-> [a \in Attempts |-> "none"], listeners |-> {}]

\* whether a fresh component is torn down by a payload that declares
\* nothing but the given violations
TerminatesOn(violations) ==
  LET r == GuardrailExecute(FreshStore,
                            [BasePayload EXCEPT !.violations = violations])
  IN "onGuardrailViolation" \in {r.calls[i] : i \in DOMAIN r.calls}

\* C32: whether a valid guardrail_state call ends the session is decided by
\* the violations list of its payload alone: whatever the status, the
\* tracked guardrail state, the moderation log and the eligibility summary
\* of the session that receives it, the decision is the one a fresh
\* component makes for a payload with the same violations.
C32_TerminationDependsOnViolationsOnly ==
  (GuardrailReturned /\ last.info.raw \in SampledValid)
    => (Called("onGuardrailViolation")
          <=> TerminatesOn(last.info.raw.violations))

\* a session that is connected and tracks an earlier declaration with a
\* violation receives a low-risk payload and goes on
C32_Witness ==
  /\ GuardrailReturned
  /\ last.info.raw = AdvicePayload
  /\ last.info.before.status = "connected"
  /\ last.info.before.guardrailState = NormalizedPayload(LowRiskPayload)
  /\ moderationLog # <<>>
  /\ eligibilitySummary # JNull
  /\ ~Called("onGuardrailViolation")
  /\ status = "connected"

\* the state tracked for a valid payload
TrackedFor(raw) ==
  [state |-> raw.state.v,
   action |-> raw.action.v,
   pii_requested |-> Strings(raw.pii_requested),
   violations |-> Strings(raw.violations),
   risk_notes |-> raw.risk_notes]

\* C33: guardrail_state calls take effect one by one in the order they
\* arrive: a call that tears nothing down leaves as tracked state the
\* normalized payload of that call if it is valid, and the state tracked
\* before it if it is invalid; so after any run of such calls the tracked
\* state is that of the last valid one.
C33_LastValidDeclarationTracked ==
  [][(last'.op = "guardrail_state" /\ ~ViolationHandled')
       => guardrailState' =
            (IF last'.info.raw \in SampledValid
             THEN TrackedFor(last'.info.raw)
             ELSE guardrailState)]_vars

\* a valid declaration, then an invalid one: the valid one is still tracked
C33_Witness ==
  /\ GuardrailReturned
  /\ last.info.raw = [BasePayload EXCEPT !.state = JStr("PAUSED")]
  /\ last.info.calls = <<>>
  /\ last.info.before.guardrailState = NormalizedPayload(LowRiskPayload)
  /\ guardrailState = NormalizedPayload(LowRiskPayload)

\* an awaited step of an attempt settled, and whether it failed
AttemptSettled ==
  last.op \in {"fetch_done", "media_done", "session.connect_done"}

\* C34: when every awaited operation settles, a status of connecting is
\* always followed by another status; the step in which session.connect()
\* resolves leaves the status connected, and a step in which an awaited
\* operation rejects leaves it error.
C34_ConnectingAlwaysEnds ==
  /\ (status = "connecting") ~> (status # "connecting")
  /\ [][(AttemptSettled' /\ pc' # pc)
          => /\ last'.info.failed => status' = "error"
             /\ (last'.op = "session.connect_done" /\ ~last'.info.failed)
                  => status' = "connected"]_vars

\* session.connect() resolved in a component that was connecting
C34_Witness ==
  /\ last.op = "session.connect_done"
  /\ ~last.info.failed
  /\ status = "connected"
  /\ renderedStatus = "connecting"

\* C35: whenever the status is connected the session handle and the media
\* stream reference are both non-null.
C35_ConnectedHoldsSessionAndStream ==
  status = "connected" => (sessionRef # NoRef /\ mediaStreamRef # NoRef)

\* C36: a non-null error message implies that the status is error.
C36_ErrorMessageOnlyInErrorStatus ==
  error # JNull => status = "error"

\* C37: whenever the status is error a non-empty error message is set.
C37_ErrorStatusHasMessage ==
  status = "error" => ErrorBannerShown(error)

\* a high-risk payload is the tracked guardrail state
ViolationTracked == guardrailState # JNull /\ IsHighRisk(guardrailState)

\* C38: when a guardrail-triggered teardown finishes, the tracked guardrail
\* state is the violating payload, the history and the moderation log are
\* empty and the eligibility summary is null; and a tracked violating
\* payload is replaced or cleared only by a connect() or disconnect() call.
C38_ViolatingPayloadStaysTracked ==
  [][/\ (ViolationHandled'
           => /\ guardrailState' = TrackedFor(last'.info.raw)
              /\ history' = <<>>
              /\ moderationLog' = <<>>
              /\ eligibilitySummary' = JNull)
      /\ ((ViolationTracked /\ last'.op \notin {"connect", "disconnect"})
           => guardrailState' = guardrailState)]_vars

\* the sessions whose transport has connected and which are not closed
LiveSessions == {a \in Attempts : sess[a] = "live"}

\* C39: at most one session that has connected and is not yet closed exists
\* at any time, and every such session is the one the session handle
\* references.
C39_AtMostOneLiveSession ==
  /\ \A a, b \in LiveSessions : a = b
  /\ \A a \in LiveSessions : sessionRef = a

\* C40: in every reachable state a second resetSession in a row changes
\* nothing and releases nothing (it closes no session, stops no track and
\* runs no listener cleanup); the handle never references a session that
\* is already closed, so close() runs at most once per session; and the
\* cleanups waiting in listenerCleanupRef are distinct and belong to
\* listeners still registered, so each runs at most once.
C40_TeardownIdempotent ==
  LET once == resetSession(Cur) IN
  /\ resetSession(once) = once
  /\ ReleaseSteps(once) = <<[step |-> "pause playback", of |-> NoRef]>>
  /\ once.listenerCleanupRef = <<>>
  /\ sessionRef # NoRef => sess[sessionRef] # "closed"
  /\ \A i, j \in DOMAIN listenerCleanupRef :
       i # j => listenerCleanupRef[i] # listenerCleanupRef[j]
  /\ \A i \in DOMAIN listenerCleanupRef : listenerCleanupRef[i] \in listeners

\* disconnect() ran resetSession right after an earlier teardown that had
\* closed a session
C40_Witness ==
  /\ last.op = "disconnect"
  /\ last.info.before.status = "idle"
  /\ last.info.released = <<[step |-> "pause playback", of |-> NoRef]>>
  /\ \E a \in Attempts : sess[a] = "closed"
====
